---- MODULE Spec2Model ----
(***************************************************************************)
(* FinancialComplianceValidator (guardrails_custom/                        *)
(* financial_compliance_validator.py): topic detection, the four rule      *)
(* checkers, the LLM and spaCy stages, the verdict and the suggested fix.  *)
(*                                                                         *)
(* A text is a sequence of tokens. The string it stands for is its tokens  *)
(* joined by single spaces; the disclaimer paragraph the validator appends *)
(* is one token that starts with its own two newlines and is joined with   *)
(* no space. Python's substring test and the regular expressions are       *)
(* evaluated on the tokens through the fact tables below, every row of     *)
(* which is a fact about the token's own characters.                       *)
(***************************************************************************)
EXTENDS Integers, Sequences, FiniteSets, TLC

DISCLAIMER ==
    "\n\nDisclaimer: This is not financial advice. Please consult with a qualified financial professional before making investment decisions."

DISCLAIMER_LOWER ==
    "\n\ndisclaimer: this is not financial advice. please consult with a qualified financial professional before making investment decisions."

\* ---- token facts: begin ----
AllTokens ==
    {"guaranteed",
     "Guaranteed",
     "returns",
     "risk-free",
     "investment",
     "cannot",
     "lose",
     "money",
     "sure",
     "thing",
     "should",
     "buy",
     "100%",
     "safe",
     "potentially",
     "may",
     "have",
     "lower",
     "risk",
     "might",
     "reach",
     "could",
     "be",
     "will",
     "hit",
     "$500",
     "as",
     "a",
     "financial",
     "advisor",
     "market",
     "offer",
     "of",
     "loss",
     "valued",
     "at",
     "increase",
     "definitely",
     "worth",
     DISCLAIMER,
     DISCLAIMER_LOWER}

LowerTok ==
       "guaranteed" :> "guaranteed" @@
       "Guaranteed" :> "guaranteed" @@
       "returns" :> "returns" @@
       "risk-free" :> "risk-free" @@
       "investment" :> "investment" @@
       "cannot" :> "cannot" @@
       "lose" :> "lose" @@
       "money" :> "money" @@
       "sure" :> "sure" @@
       "thing" :> "thing" @@
       "should" :> "should" @@
       "buy" :> "buy" @@
       "100%" :> "100%" @@
       "safe" :> "safe" @@
       "potentially" :> "potentially" @@
       "may" :> "may" @@
       "have" :> "have" @@
       "lower" :> "lower" @@
       "risk" :> "risk" @@
       "might" :> "might" @@
       "reach" :> "reach" @@
       "could" :> "could" @@
       "be" :> "be" @@
       "will" :> "will" @@
       "hit" :> "hit" @@
       "$500" :> "$500" @@
       "as" :> "as" @@
       "a" :> "a" @@
       "financial" :> "financial" @@
       "advisor" :> "advisor" @@
       "market" :> "market" @@
       "offer" :> "offer" @@
       "of" :> "of" @@
       "loss" :> "loss" @@
       "valued" :> "valued" @@
       "at" :> "at" @@
       "increase" :> "increase" @@
       "definitely" :> "definitely" @@
       "worth" :> "worth" @@
       DISCLAIMER :> DISCLAIMER_LOWER @@
       DISCLAIMER_LOWER :> DISCLAIMER_LOWER

Substrings ==
       "guaranteed" :> {"guaranteed"} @@
       "Guaranteed" :> {} @@
       "returns" :> {"return", "returns"} @@
       "risk-free" :> {"risk", "risk-free"} @@
       "investment" :> {"invest", "investment"} @@
       "cannot" :> {} @@
       "lose" :> {} @@
       "money" :> {"money"} @@
       "sure" :> {} @@
       "thing" :> {} @@
       "should" :> {} @@
       "buy" :> {"buy"} @@
       "100%" :> {} @@
       "safe" :> {} @@
       "potentially" :> {"potentially"} @@
       "may" :> {"may"} @@
       "have" :> {} @@
       "lower" :> {} @@
       "risk" :> {"risk"} @@
       "might" :> {"might"} @@
       "reach" :> {} @@
       "could" :> {"could"} @@
       "be" :> {} @@
       "will" :> {"will"} @@
       "hit" :> {} @@
       "$500" :> {} @@
       "as" :> {} @@
       "a" :> {} @@
       "financial" :> {"financial"} @@
       "advisor" :> {} @@
       "market" :> {"market"} @@
       "offer" :> {} @@
       "of" :> {} @@
       "loss" :> {"loss"} @@
       "valued" :> {} @@
       "at" :> {} @@
       "increase" :> {} @@
       "definitely" :> {} @@
       "worth" :> {} @@
       DISCLAIMER :> {"consult", "financial", "financial advice", "invest", "investment", "not financial advice", "professional"} @@
       DISCLAIMER_LOWER :> {"consult", "disclaimer", "financial", "financial advice", "invest", "investment", "not financial advice", "professional"}

Prefixes ==
       "guaranteed" :> {} @@
       "Guaranteed" :> {} @@
       "returns" :> {"return"} @@
       "risk-free" :> {"risk-free"} @@
       "investment" :> {"invest", "investment"} @@
       "cannot" :> {} @@
       "lose" :> {} @@
       "money" :> {} @@
       "sure" :> {"sure"} @@
       "thing" :> {"thing"} @@
       "should" :> {} @@
       "buy" :> {"buy"} @@
       "100%" :> {} @@
       "safe" :> {} @@
       "potentially" :> {} @@
       "may" :> {} @@
       "have" :> {} @@
       "lower" :> {} @@
       "risk" :> {} @@
       "might" :> {} @@
       "reach" :> {} @@
       "could" :> {} @@
       "be" :> {} @@
       "will" :> {"will"} @@
       "hit" :> {} @@
       "$500" :> {} @@
       "as" :> {"a"} @@
       "a" :> {"a"} @@
       "financial" :> {"financial"} @@
       "advisor" :> {"a", "advisor"} @@
       "market" :> {"market"} @@
       "offer" :> {} @@
       "of" :> {} @@
       "loss" :> {"loss"} @@
       "valued" :> {} @@
       "at" :> {"a"} @@
       "increase" :> {} @@
       "definitely" :> {} @@
       "worth" :> {} @@
       DISCLAIMER :> {} @@
       DISCLAIMER_LOWER :> {}

Suffixes ==
       "guaranteed" :> {} @@
       "Guaranteed" :> {} @@
       "returns" :> {} @@
       "risk-free" :> {} @@
       "investment" :> {"investment"} @@
       "cannot" :> {"not"} @@
       "lose" :> {} @@
       "money" :> {} @@
       "sure" :> {"sure"} @@
       "thing" :> {"thing"} @@
       "should" :> {} @@
       "buy" :> {} @@
       "100%" :> {} @@
       "safe" :> {} @@
       "potentially" :> {} @@
       "may" :> {} @@
       "have" :> {} @@
       "lower" :> {} @@
       "risk" :> {} @@
       "might" :> {} @@
       "reach" :> {} @@
       "could" :> {} @@
       "be" :> {} @@
       "will" :> {} @@
       "hit" :> {} @@
       "$500" :> {} @@
       "as" :> {} @@
       "a" :> {"a"} @@
       "financial" :> {"financial"} @@
       "advisor" :> {"advisor"} @@
       "market" :> {"market"} @@
       "offer" :> {} @@
       "of" :> {} @@
       "loss" :> {} @@
       "valued" :> {} @@
       "at" :> {} @@
       "increase" :> {} @@
       "definitely" :> {} @@
       "worth" :> {} @@
       DISCLAIMER :> {} @@
       DISCLAIMER_LOWER :> {}

FirstWord ==
       "guaranteed" :> "guaranteed" @@
       "Guaranteed" :> "Guaranteed" @@
       "returns" :> "returns" @@
       "risk-free" :> "risk" @@
       "investment" :> "investment" @@
       "cannot" :> "cannot" @@
       "lose" :> "lose" @@
       "money" :> "money" @@
       "sure" :> "sure" @@
       "thing" :> "thing" @@
       "should" :> "should" @@
       "buy" :> "buy" @@
       "100%" :> "100" @@
       "safe" :> "safe" @@
       "potentially" :> "potentially" @@
       "may" :> "may" @@
       "have" :> "have" @@
       "lower" :> "lower" @@
       "risk" :> "risk" @@
       "might" :> "might" @@
       "reach" :> "reach" @@
       "could" :> "could" @@
       "be" :> "be" @@
       "will" :> "will" @@
       "hit" :> "hit" @@
       "$500" :> "" @@
       "as" :> "as" @@
       "a" :> "a" @@
       "financial" :> "financial" @@
       "advisor" :> "advisor" @@
       "market" :> "market" @@
       "offer" :> "offer" @@
       "of" :> "of" @@
       "loss" :> "loss" @@
       "valued" :> "valued" @@
       "at" :> "at" @@
       "increase" :> "increase" @@
       "definitely" :> "definitely" @@
       "worth" :> "worth" @@
       DISCLAIMER :> "Disclaimer" @@
       DISCLAIMER_LOWER :> "disclaimer"

LastWord ==
       "guaranteed" :> "guaranteed" @@
       "Guaranteed" :> "Guaranteed" @@
       "returns" :> "returns" @@
       "risk-free" :> "free" @@
       "investment" :> "investment" @@
       "cannot" :> "cannot" @@
       "lose" :> "lose" @@
       "money" :> "money" @@
       "sure" :> "sure" @@
       "thing" :> "thing" @@
       "should" :> "should" @@
       "buy" :> "buy" @@
       "100%" :> "" @@
       "safe" :> "safe" @@
       "potentially" :> "potentially" @@
       "may" :> "may" @@
       "have" :> "have" @@
       "lower" :> "lower" @@
       "risk" :> "risk" @@
       "might" :> "might" @@
       "reach" :> "reach" @@
       "could" :> "could" @@
       "be" :> "be" @@
       "will" :> "will" @@
       "hit" :> "hit" @@
       "$500" :> "500" @@
       "as" :> "as" @@
       "a" :> "a" @@
       "financial" :> "financial" @@
       "advisor" :> "advisor" @@
       "market" :> "market" @@
       "offer" :> "offer" @@
       "of" :> "of" @@
       "loss" :> "loss" @@
       "valued" :> "valued" @@
       "at" :> "at" @@
       "increase" :> "increase" @@
       "definitely" :> "definitely" @@
       "worth" :> "worth" @@
       DISCLAIMER :> "" @@
       DISCLAIMER_LOWER :> ""

Whole ==
       "guaranteed" :> "guaranteed" @@
       "Guaranteed" :> "Guaranteed" @@
       "returns" :> "returns" @@
       "risk-free" :> "" @@
       "investment" :> "investment" @@
       "cannot" :> "cannot" @@
       "lose" :> "lose" @@
       "money" :> "money" @@
       "sure" :> "sure" @@
       "thing" :> "thing" @@
       "should" :> "should" @@
       "buy" :> "buy" @@
       "100%" :> "" @@
       "safe" :> "safe" @@
       "potentially" :> "potentially" @@
       "may" :> "may" @@
       "have" :> "have" @@
       "lower" :> "lower" @@
       "risk" :> "risk" @@
       "might" :> "might" @@
       "reach" :> "reach" @@
       "could" :> "could" @@
       "be" :> "be" @@
       "will" :> "will" @@
       "hit" :> "hit" @@
       "$500" :> "" @@
       "as" :> "as" @@
       "a" :> "a" @@
       "financial" :> "financial" @@
       "advisor" :> "advisor" @@
       "market" :> "market" @@
       "offer" :> "offer" @@
       "of" :> "of" @@
       "loss" :> "loss" @@
       "valued" :> "valued" @@
       "at" :> "at" @@
       "increase" :> "increase" @@
       "definitely" :> "definitely" @@
       "worth" :> "worth" @@
       DISCLAIMER :> "" @@
       DISCLAIMER_LOWER :> ""

WordsIn ==
       "guaranteed" :> {"guaranteed"} @@
       "Guaranteed" :> {"Guaranteed"} @@
       "returns" :> {"returns"} @@
       "risk-free" :> {"free", "risk"} @@
       "investment" :> {"investment"} @@
       "cannot" :> {"cannot"} @@
       "lose" :> {"lose"} @@
       "money" :> {"money"} @@
       "sure" :> {"sure"} @@
       "thing" :> {"thing"} @@
       "should" :> {"should"} @@
       "buy" :> {"buy"} @@
       "100%" :> {"100"} @@
       "safe" :> {"safe"} @@
       "potentially" :> {"potentially"} @@
       "may" :> {"may"} @@
       "have" :> {"have"} @@
       "lower" :> {"lower"} @@
       "risk" :> {"risk"} @@
       "might" :> {"might"} @@
       "reach" :> {"reach"} @@
       "could" :> {"could"} @@
       "be" :> {"be"} @@
       "will" :> {"will"} @@
       "hit" :> {"hit"} @@
       "$500" :> {"500"} @@
       "as" :> {"as"} @@
       "a" :> {"a"} @@
       "financial" :> {"financial"} @@
       "advisor" :> {"advisor"} @@
       "market" :> {"market"} @@
       "offer" :> {"offer"} @@
       "of" :> {"of"} @@
       "loss" :> {"loss"} @@
       "valued" :> {"valued"} @@
       "at" :> {"at"} @@
       "increase" :> {"increase"} @@
       "definitely" :> {"definitely"} @@
       "worth" :> {"worth"} @@
       DISCLAIMER :> {"Disclaimer", "Please", "This", "a", "advice", "before", "consult", "decisions", "financial", "investment", "is", "making", "not", "professional", "qualified", "with"} @@
       DISCLAIMER_LOWER :> {"a", "advice", "before", "consult", "decisions", "disclaimer", "financial", "investment", "is", "making", "not", "please", "professional", "qualified", "this", "with"}

Shapes ==
       "guaranteed" :> {"word_start"} @@
       "Guaranteed" :> {"word_start"} @@
       "returns" :> {"word_start"} @@
       "risk-free" :> {"word_start"} @@
       "investment" :> {"word_start"} @@
       "cannot" :> {"word_start"} @@
       "lose" :> {"word_start"} @@
       "money" :> {"word_start"} @@
       "sure" :> {"word_start"} @@
       "thing" :> {"word_start"} @@
       "should" :> {"word_start"} @@
       "buy" :> {"word_start"} @@
       "100%" :> {"hundred_percent", "percent", "word_start"} @@
       "safe" :> {"word_start"} @@
       "potentially" :> {"word_start"} @@
       "may" :> {"word_start"} @@
       "have" :> {"word_start"} @@
       "lower" :> {"word_start"} @@
       "risk" :> {"word_start"} @@
       "might" :> {"word_start"} @@
       "reach" :> {"word_start"} @@
       "could" :> {"word_start"} @@
       "be" :> {"word_start"} @@
       "will" :> {"word_start"} @@
       "hit" :> {"word_start"} @@
       "$500" :> {"amount", "amount_end", "amount_open", "has_amount"} @@
       "as" :> {"word_start"} @@
       "a" :> {"word_start"} @@
       "financial" :> {"word_start"} @@
       "advisor" :> {"word_start"} @@
       "market" :> {"word_start"} @@
       "offer" :> {"word_start"} @@
       "of" :> {"word_start"} @@
       "loss" :> {"word_start"} @@
       "valued" :> {"word_start"} @@
       "at" :> {"word_start"} @@
       "increase" :> {"word_start"} @@
       "definitely" :> {"word_start"} @@
       "worth" :> {"word_start"} @@
       DISCLAIMER :> {"newline"} @@
       DISCLAIMER_LOWER :> {"newline"}

WordsOf ==
       "bear market" :> <<"bear", "market">> @@
       "bull market" :> <<"bull", "market">> @@
       "do your own research" :> <<"do", "your", "own", "research">> @@
       "due diligence" :> <<"due", "diligence">> @@
       "educational purposes" :> <<"educational", "purposes">> @@
       "financial advice" :> <<"financial", "advice">> @@
       "financial planner" :> <<"financial", "planner">> @@
       "investment advice" :> <<"investment", "advice">> @@
       "investment professional" :> <<"investment", "professional">> @@
       "mutual fund" :> <<"mutual", "fund">> @@
       "not a financial advisor" :> <<"not", "a", "financial", "advisor">> @@
       "not a licensed" :> <<"not", "a", "licensed">> @@
       "not financial advice" :> <<"not", "financial", "advice">> @@
       "not investment advice" :> <<"not", "investment", "advice">> @@
       "not professional advice" :> <<"not", "professional", "advice">> @@
       "opinion only" :> <<"opinion", "only">> @@
       "past performance" :> <<"past", "performance">> @@
       "qualified advisor" :> <<"qualified", "advisor">> @@
       "real estate" :> <<"real", "estate">> @@
       "seek advice" :> <<"seek", "advice">> @@
       "sure thing" :> <<"sure", "thing">>
\* ---- token facts: end ----

-----------------------------------------------------------------------------
(* The keyword sets of __init__                                            *)

financial_keywords ==
    {"invest", "investment", "portfolio", "stock", "stocks", "bond", "bonds",
     "etf", "mutual fund", "401k", "ira", "retirement", "dividend", "yield",
     "trade", "trading", "buy", "sell", "broker", "market", "exchange",
     "bull market", "bear market", "volatility", "risk", "return", "roi",
     "financial advice", "investment advice", "recommend", "suggestion",
     "strategy", "allocation", "diversification", "asset", "wealth",
     "crypto", "cryptocurrency", "bitcoin", "real estate", "commodities",
     "securities", "equity", "debt", "capital", "finance", "financial",
     "money", "profit", "profits", "earnings", "income", "gains", "returns",
     "rich", "wealthy", "millionaire", "fortune", "cash", "savings",
     "insider", "tips", "secret", "guaranteed", "risk-free", "sure thing"}

disclaimer_keywords ==
    {"not financial advice", "not investment advice", "consult", "professional",
     "do your own research", "past performance", "risk", "disclaimer",
     "opinion only", "educational purposes", "seek advice", "qualified advisor",
     "investment professional", "financial planner", "due diligence"}

uncertainty_words ==
    {"might", "could", "may", "possibly", "perhaps", "likely", "potentially"}

licensing_disclaimers ==
    {"not a licensed", "not a financial advisor", "not professional advice"}

-----------------------------------------------------------------------------
(* Strings and regular expressions over token sequences                    *)

\* text.lower()
Lowered(t) == [i \in DOMAIN t |-> LowerTok[t[i]]]

\* Python's `kw in t`: inside one token, or (a keyword of several words)
\* across tokens that a single space joins.
Contains(t, kw) ==
    \/ \E i \in DOMAIN t : kw \in Substrings[t[i]]
    \/ /\ kw \in DOMAIN WordsOf
       /\ LET w == WordsOf[kw]
              n == Len(w)
          IN  \E i \in 1..(Len(t) - n + 1) :
                  /\ w[1] \in Suffixes[t[i]]
                  /\ \A k \in 2..(n - 1) : t[i + k - 1] = w[k]
                  /\ w[n] \in Prefixes[t[i + n - 1]]

\* The words p[1] \s+ p[2] \s+ ... matched from token i on, between two \b.
PhraseAt(t, i, p) ==
    LET n == Len(p)
    IN  /\ i >= 1
        /\ i + n - 1 <= Len(t)
        /\ IF n = 1
           THEN WordsIn[t[i]] \cap p[1] # {}
           ELSE /\ LastWord[t[i]] \in p[1]
                /\ \A k \in 2..(n - 1) : Whole[t[i + k - 1]] \in p[k]
                /\ FirstWord[t[i + n - 1]] \in p[n]

HasPhrase(t, p) == \E i \in DOMAIN t : PhraseAt(t, i, p)

\* The tokens at which a match of phrase p ends, and those at which one starts.
Ends(t, p) == {i + Len(p) - 1 : i \in {x \in DOMAIN t : PhraseAt(t, x, p)}}

Starts(t, p) == {i \in DOMAIN t : PhraseAt(t, i, p)}

\* `.` matches no newline: no token of i+1..j carries one.
NoBreak(t, i, j) == \A k \in (i + 1)..j : "newline" \notin Shapes[t[k]]

\* head .* tail, the head ending at a token of E, the tail starting at one of S
Gap(E, S, t) == \E i \in E, j \in S : i < j /\ NoBreak(t, i, j)

\* head \s+ .* tail: the \s+ may be the newlines that open token i+1
SpaceGap(E, S, t) ==
    \E i \in E, j \in S :
        i < j /\ Whole[t[i]] # "" /\ NoBreak(t, i + 1, j)

\* the tokens whose Shapes hold the tag
Shaped(t, tag) == {i \in DOMAIN t : tag \in Shapes[t[i]]}

\* the token at i + k (out of range: no token)
Word(t, i, S) == i \in DOMAIN t /\ Whole[t[i]] \in S

Amount(t, i, tag) == i \in DOMAIN t /\ tag \in Shapes[t[i]]

\* the tokens of which one of the strings of S is a prefix / a substring
Prefixed(t, S) == {i \in DOMAIN t : Prefixes[t[i]] \cap S # {}}

Holding(t, S) == {i \in DOMAIN t : Substrings[t[i]] \cap S # {}}

-----------------------------------------------------------------------------
(* self.guaranteed_return_patterns, each on the lowercased text t          *)

GuaranteeWords == {"guarantee", "guarantees", "guaranteed"}

G1(t) == Gap(Ends(t, <<GuaranteeWords \cup {"assured", "certain", "definite", "promised"}>>),
             Starts(t, <<{"return", "returns", "profit", "profits", "gain", "gains", "income"}>>), t)

G2(t) == \E i \in Starts(t, <<GuaranteeWords>>), j \in Prefixed(t, {"make"}),
           k \in Starts(t, <<{"money", "return", "returns", "profit", "profits"}>>) :
             i < j /\ j < k /\ NoBreak(t, i, k)

G3(t) == \/ HasPhrase(t, <<{"risk"}, {"free"}>>)
         \/ HasPhrase(t, <<{"no", "zero"}, {"risk"}>>)
         \/ Holding(t, {"risk-free", "no-risk", "zero-risk"}) # {}

G4(t) == SpaceGap(Ends(t, <<{"will"}, {"definitely", "certainly", "surely"}>>),
                  Starts(t, <<{"increase", "rise", "grow", "profit"}>>), t)

G5(t) == \E i \in Shaped(t, "hundred_percent") :
             i + 1 \in DOMAIN t /\ FirstWord[t[i + 1]] \in {"safe", "secure", "guaranteed"}

G6(t) == Gap(Ends(t, <<{"cannot"}, {"lose", "fail"}>>),
             Starts(t, <<{"money", "investment"}>>), t)

G7(t) == HasPhrase(t, <<{"sure"}, {"thing", "bet", "profit"}>>)

G8(t) == HasPhrase(t, <<{"no"}, {"chance", "risk"}, {"of"}, {"loss"}>>)

guaranteed_return_patterns(t) ==
    <<G1(t), G2(t), G3(t), G4(t), G5(t), G6(t), G7(t), G8(t)>>

-----------------------------------------------------------------------------
(* self.specific_prediction_patterns                                       *)

\* (hit|reach|be worth)\s+\$[\d,]+\b : the tokens at which it starts
VerbAmount(t) ==
    {j \in DOMAIN t :
        \/ LastWord[t[j]] \in {"hit", "reach"} /\ Amount(t, j + 1, "amount")
        \/ LastWord[t[j]] = "be" /\ Word(t, j + 1, {"worth"}) /\ Amount(t, j + 2, "amount")}

P1(t) == SpaceGap(Ends(t, <<{"will"}>>) \cup Ends(t, <<{"going"}, {"to"}>>), VerbAmount(t), t)

P2(t) == \E i \in Shaped(t, "upper_2_5") :
             /\ Word(t, i + 1, {"will"})
             /\ Word(t, i + 2, {"hit", "reach"})
             /\ Amount(t, i + 3, "amount")

P3(t) == Gap(Ends(t, <<{"by"}, {"next"}, {"week", "month"}>>)
               \cup {i + 1 : i \in {x \in DOMAIN t : LastWord[t[x]] = "by" /\ Amount(t, x + 1, "date")}},
             Starts(t, <<{"price", "value"}>>), t)

P4(t) == \E i \in DOMAIN t :
             /\ LastWord[t[i]] = "exactly"
             /\ Amount(t, i + 1, "percent")
             /\ i + 2 \in DOMAIN t /\ FirstWord[t[i + 2]] \in {"gain", "return", "profit"}

P5(t) == \E i \in DOMAIN t :
             /\ LastWord[t[i]] = "will"
             /\ Word(t, i + 1, {"be"}) /\ Word(t, i + 2, {"worth"}) /\ Word(t, i + 3, {"exactly"})
             /\ Amount(t, i + 4, "amount")

P6(t) == SpaceGap(Ends(t, <<{"tomorrow"}>>) \cup Ends(t, <<{"next"}, {"week"}>>)
                    \cup Ends(t, <<{"this"}, {"month"}>>),
                  Starts(t, <<{"will"}, {"be"}>>) \cup Starts(t, <<{"expect"}>>), t)

P7(t) == SpaceGap(Ends(t, <<{"predictin", "predicting"}>>),
                  {j \in Shaped(t, "amount_end") :
                      j + 1 \in DOMAIN t /\ FirstWord[t[j + 1]] = "by"}, t)

specific_prediction_patterns(t) ==
    <<P1(t), P2(t), P3(t), P4(t), P5(t), P6(t), P7(t)>>

-----------------------------------------------------------------------------
(* self.advice_indicators and self.licensing_patterns                      *)

advice_indicators(t) ==
    << HasPhrase(t, <<{"should", "must", "recommend", "suggest"}, {"buy", "sell", "invest", "trade"}>>),
       HasPhrase(t, <<{"best", "top", "perfect"}, {"stock", "investment", "strategy"}>>),
       \/ HasPhrase(t, <<{"my"}, {"advice"}>>)
       \/ HasPhrase(t, <<{"i"}, {"recommend"}>>)
       \/ HasPhrase(t, <<{"you"}, {"should"}>>),
       \/ HasPhrase(t, <<{"time"}, {"to"}, {"buy"}>>)
       \/ HasPhrase(t, <<{"now"}, {"is"}, {"the"}, {"time"}>>),
       \/ HasPhrase(t, <<{"buy", "sell"}, {"now"}>>)
       \/ HasPhrase(t, <<{"act"}, {"fast"}>>),
       HasPhrase(t, <<{"strong"}, {"buy", "sell"}>>) >>

licensing_patterns(t) ==
    << HasPhrase(t, <<{"as"}, {"a"}, {"financial"}, {"advisor"}>>),
       HasPhrase(t, <<{"i"}, {"am"}, {"a"}, {"licensed"}>>),
       HasPhrase(t, <<{"my"}, {"professional"}, {"opinion"}>>),
       HasPhrase(t, <<{"fiduciary"}, {"advice", "duty"}>>),
       HasPhrase(t, <<{"certified"}, {"financial"}, {"planner"}>>),
       HasPhrase(t, <<{"registered"}, {"investment"}, {"advisor"}>>) >>

\* any(re.search(pattern, text) for pattern in patterns)
AnyMatch(matches) == \E k \in DOMAIN matches : matches[k]

\* sum(1 for pattern in patterns if re.search(pattern, text))
CountMatches(matches) == Cardinality({k \in DOMAIN matches : matches[k]})

-----------------------------------------------------------------------------
(* _contains_financial_content                                             *)

price_prediction_patterns(t) ==
    << \E i \in Shaped(t, "upper_2_6") :
           /\ Word(t, i + 1, {"will"})
           /\ \/ Word(t, i + 2, {"hit", "reach"}) /\ Amount(t, i + 3, "amount_open")
              \/ /\ Word(t, i + 2, {"be"}) /\ Word(t, i + 3, {"worth"})
                 /\ Amount(t, i + 4, "amount_open"),
       \E i \in DOMAIN t :
           /\ LastWord[t[i]] \in {"stock", "share", "price"}
           /\ Word(t, i + 1, {"will"}) /\ Word(t, i + 2, {"hit", "reach"})
           /\ Amount(t, i + 3, "amount_open"),
       Gap(Shaped(t, "has_amount"),
           Starts(t, <<{"target", "prediction", "forecast"}>>)
             \cup {j \in DOMAIN t : LastWord[t[j]] = "by" /\ Amount(t, j + 1, "word_start")}, t),
       Gap(Prefixed(t, {"convince", "tell", "predict"}), Shaped(t, "has_amount"), t),
       \E i \in Prefixed(t, {"will"}), j \in Shaped(t, "has_amount"),
          k \in Starts(t, <<{"month", "week", "year", "next"}>>) :
           i < j /\ j < k /\ NoBreak(t, i, k),
       \E i \in Shaped(t, "upper"), j \in Shaped(t, "has_amount") :
           /\ i + 1 \in DOMAIN t /\ Prefixes[t[i + 1]] \cap {"stock", "share"} # {}
           /\ i + 1 < j /\ NoBreak(t, i + 1, j) >>

financial_contexts(t) ==
    << Gap(Prefixed(t, {"buy", "sell", "trade", "invest", "hold"}), Shaped(t, "has_upper_2_6"), t),
       Gap(Shaped(t, "has_upper_2_6"), Holding(t, {"stock", "share", "equity"}), t),
       HasPhrase(t, <<{"portfolio", "investment", "trading", "market"}>>),
       Gap(Shaped(t, "has_amount"), Holding(t, {"profit", "loss", "gain", "return"}), t),
       HasPhrase(t, <<{"bullish", "bearish", "rally", "crash", "volatility"}>>) >>

\* (mutant) three signals: `has_financial_context` is left out of the result
PatternDetectionWithoutContext(text) ==
    LET t == Lowered(text)
        financial_keyword_count == Cardinality({kw \in financial_keywords : Contains(t, kw)})
        advice_pattern_count == CountMatches(advice_indicators(t))
        has_price_prediction == AnyMatch(price_prediction_patterns(t))
    IN  \/ financial_keyword_count >= 2
        \/ advice_pattern_count >= 1
        \/ has_price_prediction

\* Method 2 and Method 3: the pattern heuristics
PatternDetection(text) ==
    LET t == Lowered(text)
        financial_keyword_count == Cardinality({kw \in financial_keywords : Contains(t, kw)})
        advice_pattern_count == CountMatches(advice_indicators(t))
        has_price_prediction == AnyMatch(price_prediction_patterns(t))
        has_financial_context == AnyMatch(financial_contexts(t))
    IN  \/ financial_keyword_count >= 2
        \/ advice_pattern_count >= 1
        \/ has_price_prediction
        \/ has_financial_context

\* What self._llm_financial_classifier(text) does: it returns True ("yes"),
\* False ("no") or None ("none"), or raises ("raise").
ClassifierOutcomes == {"yes", "no", "none", "raise"}

\* (mutant) `except Exception: return False`: a classifier that raises counts
\* as a definite "not financial"
ContainsFinancialRaiseIsNo(text, llm_result) ==
    IF llm_result \in {"yes", "no", "raise"}
    THEN llm_result = "yes"
    ELSE PatternDetection(text)

\* (mutant) `if llm_result: return True`: a definite False is taken for no answer
ContainsFinancialNoIsUnknown(text, llm_result) ==
    IF llm_result = "yes"
    THEN TRUE
    ELSE PatternDetection(text)

_contains_financial_content(text, llm_result) ==
    IF llm_result \in {"yes", "no"}
    THEN llm_result = "yes"
    ELSE PatternDetection(text)

-----------------------------------------------------------------------------
(* The four rule checkers                                                  *)

ISSUE_GUARANTEED == "Contains prohibited guaranteed return language"

ISSUE_PREDICTION == "Contains overly specific predictions without uncertainty language"

ISSUE_DISCLAIMER == "Financial advice provided without required disclaimers"

ISSUE_UNLICENSED == "Potential unlicensed financial advice - verify credentials"

\* (mutant) only the first pattern of the list is tried
CheckGuaranteedFirstPatternOnly(text) ==
    IF guaranteed_return_patterns(Lowered(text))[1]
    THEN <<ISSUE_GUARANTEED>>
    ELSE <<>>

\* (mutant) the loop without its `break`: one issue for each matching pattern
CheckGuaranteedEveryMatch(text) ==
    [k \in 1..CountMatches(guaranteed_return_patterns(Lowered(text))) |-> ISSUE_GUARANTEED]

_check_guaranteed_returns(text) ==
    IF AnyMatch(guaranteed_return_patterns(Lowered(text)))
    THEN <<ISSUE_GUARANTEED>>
    ELSE <<>>

\* (mutant) the uncertainty words are looked for only after the prediction
CheckPredictionsHedgeMustFollow(text) ==
    LET t == Lowered(text)
        matched == {k \in DOMAIN t : AnyMatch(specific_prediction_patterns(SubSeq(t, 1, k)))}
        has_uncertainty ==
            \E k \in matched : \E word \in uncertainty_words :
                Contains(SubSeq(t, k + 1, Len(t)), word)
    IN  IF matched # {} /\ ~ has_uncertainty
        THEN <<ISSUE_PREDICTION>>
        ELSE <<>>

_check_specific_predictions(text) ==
    LET t == Lowered(text)
        has_uncertainty == \E word \in uncertainty_words : Contains(t, word)
    IN  IF AnyMatch(specific_prediction_patterns(t)) /\ ~ has_uncertainty
        THEN <<ISSUE_PREDICTION>>
        ELSE <<>>

\* (mutant) one advice indicator is not enough: two must match
CheckDisclaimersOnTwoIndicators(text) ==
    LET t == Lowered(text)
        has_advice == CountMatches(advice_indicators(t)) >= 2
        has_disclaimer == \E disclaimer \in disclaimer_keywords : Contains(t, disclaimer)
    IN  IF has_advice /\ ~ has_disclaimer
        THEN <<ISSUE_DISCLAIMER>>
        ELSE <<>>

_check_disclaimers(text) ==
    LET t == Lowered(text)
        has_advice == AnyMatch(advice_indicators(t))
        has_disclaimer == \E disclaimer \in disclaimer_keywords : Contains(t, disclaimer)
    IN  IF has_advice /\ ~ has_disclaimer
        THEN <<ISSUE_DISCLAIMER>>
        ELSE <<>>

_check_unlicensed_advice(text) ==
    LET t == Lowered(text)
        has_licensing_claim == AnyMatch(licensing_patterns(t))
        has_advice == AnyMatch(advice_indicators(t))
        has_licensing_disclaimer == \E disclaimer \in licensing_disclaimers : Contains(t, disclaimer)
    IN  IF has_licensing_claim /\ has_advice /\ ~ has_licensing_disclaimer
        THEN <<ISSUE_UNLICENSED>>
        ELSE <<>>

-----------------------------------------------------------------------------
(* The issues the LLM and the spaCy stage can add. Their wording is the    *)
(* collaborator's, so a few wordings stand for it: what matters to the     *)
(* validator is which of the three words _suggest_compliant_version looks  *)
(* for occur in them.                                                      *)

LlmIssues ==
    {"LLM detected: Investment advice without disclaimers",
     "LLM detected: guaranteed return promises",
     "LLM detected: Unlicensed advisor claims"}

SpacyIssues ==
    {"Enhanced NLP analysis detected: guaranteed returns (GUARANTEE_LANG)",
     "Enhanced NLP analysis detected: no risk (RISK_FREE_CLAIM)"}

\* Python's `word in issue`, for the three words of _suggest_compliant_version
Mentions ==
       ISSUE_GUARANTEED :> {"guaranteed"} @@
       ISSUE_PREDICTION :> {"specific prediction"} @@
       ISSUE_DISCLAIMER :> {"disclaimer"} @@
       ISSUE_UNLICENSED :> {} @@
       "LLM detected: Investment advice without disclaimers" :> {"disclaimer"} @@
       "LLM detected: guaranteed return promises" :> {"guaranteed"} @@
       "LLM detected: Unlicensed advisor claims" :> {} @@
       "Enhanced NLP analysis detected: guaranteed returns (GUARANTEE_LANG)" :> {"guaranteed"} @@
       "Enhanced NLP analysis detected: no risk (RISK_FREE_CLAIM)" :> {}

AnyMentions(issues, word) == \E k \in DOMAIN issues : word \in Mentions[issues[k]]

-----------------------------------------------------------------------------
(* _suggest_compliant_version                                              *)

\* re.sub(r"\b<p[1]> <p[2]> ...\b", r, t, flags=re.IGNORECASE): every match,
\* left to right, no two overlapping, is replaced by the tokens r.
RECURSIVE Sub(_, _, _)
Sub(t, p, r) ==
    IF t = <<>> THEN <<>>
    ELSE IF /\ Len(t) >= Len(p)
            /\ \A k \in 1..Len(p) : Whole[LowerTok[t[k]]] \in p[k]
         THEN r \o Sub(SubSeq(t, Len(p) + 1, Len(t)), p, r)
         ELSE <<Head(t)>> \o Sub(Tail(t), p, r)

\* (mutant) no paragraph is appended
SuggestWithoutParagraph(original_text, issues) ==
    LET softened ==
            IF AnyMentions(issues, "guaranteed")
            THEN Sub(Sub(original_text, <<GuaranteeWords>>, <<"potentially">>),
                     <<{"cannot"}, {"lose"}>>, <<"may", "have", "lower", "risk">>)
            ELSE original_text
        hedged ==
            IF AnyMentions(issues, "specific prediction")
            THEN Sub(Sub(softened, <<{"will"}, {"hit"}>>, <<"might", "reach">>),
                     <<{"will"}, {"be"}>>, <<"could", "be">>)
            ELSE softened
    IN  hedged

\* (mutant) the two softenings first, then the paragraph, appended only to a
\* text in which no disclaimer keyword occurs by then
SuggestAppendsIfMissing(original_text, issues) ==
    LET softened ==
            IF AnyMentions(issues, "guaranteed")
            THEN Sub(Sub(original_text, <<GuaranteeWords>>, <<"potentially">>),
                     <<{"cannot"}, {"lose"}>>, <<"may", "have", "lower", "risk">>)
            ELSE original_text
        hedged ==
            IF AnyMentions(issues, "specific prediction")
            THEN Sub(Sub(softened, <<{"will"}, {"hit"}>>, <<"might", "reach">>),
                     <<{"will"}, {"be"}>>, <<"could", "be">>)
            ELSE softened
        has_disclaimer ==
            \E keyword \in disclaimer_keywords : Contains(Lowered(hedged), keyword)
    IN  IF AnyMentions(issues, "disclaimer") /\ ~ has_disclaimer
        THEN Append(hedged, DISCLAIMER)
        ELSE hedged

\* (mutant) the guarantee wording is softened whatever the issues are
SuggestAlwaysSoftens(original_text, issues) ==
    LET with_disclaimer ==
            IF AnyMentions(issues, "disclaimer")
            THEN Append(original_text, DISCLAIMER)
            ELSE original_text
        softened ==
            Sub(Sub(with_disclaimer, <<GuaranteeWords>>, <<"potentially">>),
                <<{"cannot"}, {"lose"}>>, <<"may", "have", "lower", "risk">>)
        hedged ==
            IF AnyMentions(issues, "specific prediction")
            THEN Sub(Sub(softened, <<{"will"}, {"hit"}>>, <<"might", "reach">>),
                     <<{"will"}, {"be"}>>, <<"could", "be">>)
            ELSE softened
    IN  hedged

_suggest_compliant_version(original_text, issues) ==
    LET with_disclaimer ==
            IF AnyMentions(issues, "disclaimer")
            THEN Append(original_text, DISCLAIMER)
            ELSE original_text
        softened ==
            IF AnyMentions(issues, "guaranteed")
            THEN Sub(Sub(with_disclaimer, <<GuaranteeWords>>, <<"potentially">>),
                     <<{"cannot"}, {"lose"}>>, <<"may", "have", "lower", "risk">>)
            ELSE with_disclaimer
        hedged ==
            IF AnyMentions(issues, "specific prediction")
            THEN Sub(Sub(softened, <<{"will"}, {"hit"}>>, <<"might", "reach">>),
                     <<{"will"}, {"be"}>>, <<"could", "be">>)
            ELSE softened
    IN  hedged

-----------------------------------------------------------------------------
(* The validator and one _validate call at a time                          *)

VARIABLES
    config,              \* the seven flags __init__ stores
    spacy_nlp,           \* TRUE: __init__ loaded the spaCy pipeline; FALSE: self.spacy_nlp is None
    classifier,          \* "default": the method that returns None; "injected": the caller's
    pc,                  \* where the current call stands
    value,               \* the argument of the current call
    llm_result,          \* what the classifier answered in this call
    contains_financial,  \* Stage 1's answer
    compliance_issues,   \* the list _validate collects
    llm_outcome,         \* how _llm_compliance_check ended in this call
    spacy_outcome,       \* what the spaCy stage added in this call
    result,              \* what the call returned (or raised)
    trace,               \* the methods the call has invoked, in order
    revalidated,         \* the result of validating result's suggested fix
    app                  \* the application around the validators, where there is one

vars == <<config, spacy_nlp, classifier, pc, value, llm_result, contains_financial,
          compliance_issues, llm_outcome, spacy_outcome, result, trace, revalidated, app>>

\* the validator stands alone: no application is built around it
NoApp == [template_manager |-> FALSE, model |-> FALSE]

Configs ==
    [require_disclaimers : BOOLEAN, check_guaranteed_returns : BOOLEAN,
     check_specific_predictions : BOOLEAN, check_unlicensed_advice : BOOLEAN,
     use_llm_verification : BOOLEAN, strict_compliance : BOOLEAN, fast_mode : BOOLEAN]

\* The longest text, in tokens, a call is made with
MaxCallLen == 2

CallVocab == {"guaranteed", "returns", "100%", "should", "buy"}

TextsUpTo(vocab, n) == UNION {[1..k -> vocab] : k \in 0..n}

\* value: a str (its text), None, a number, or a list
\* A text in which each of the four checkers finds its issue
AllIssuesText ==
    <<"as", "a", "financial", "advisor", "should", "buy",
      "100%", "guaranteed", "will", "hit", "$500">>

\* A text of one direct financial term: one financial keyword, no advice
\* indicator, no amount
DirectTermText == <<"market">>

\* A text that two guaranteed_return patterns match
TwoGuaranteesText == <<"100%", "guaranteed", "returns">>

\* The texts a call is made with
CallTexts ==
    TextsUpTo(CallVocab, MaxCallLen)
        \cup {AllIssuesText, DirectTermText, TwoGuaranteesText}

Values ==
    [kind : {"str"}, text : CallTexts]
        \cup [kind : {"none", "int", "list"}, text : {<<>>}]

NoResult == [type |-> "none", issues |-> <<>>, fix_value |-> <<>>]

PassResult == [type |-> "Pass", issues |-> <<>>, fix_value |-> <<>>]

FailResult(issues, fix_value) == [type |-> "Fail", issues |-> issues, fix_value |-> fix_value]

\* the call did not return: the exception left _validate
Raised(exception) == [type |-> exception, issues |-> <<>>, fix_value |-> <<>>]

\* (mutant) the pipeline is loaded whenever fast_mode is off
LoadsSpacyOutsideFastMode(cfg) == ~ cfg.fast_mode

\* __init__ tries to load the spaCy pipeline (SPACY_AVAILABLE is the import's luck)
LoadsSpacy(cfg) == cfg.use_llm_verification /\ ~ cfg.fast_mode

Init ==
    /\ config \in Configs
    /\ spacy_nlp \in (IF LoadsSpacy(config) THEN BOOLEAN ELSE {FALSE})
    /\ classifier \in {"default", "injected"}
    /\ pc = "idle"
    /\ value = [kind |-> "str", text |-> <<>>]
    /\ llm_result = "unset"
    /\ contains_financial = FALSE
    /\ compliance_issues = <<>>
    /\ llm_outcome = "unset"
    /\ spacy_outcome = "unset"
    /\ result = NoResult
    /\ trace = <<>>
    /\ revalidated = NoResult
    /\ app = NoApp

\* (mutant) a call that leaves fast mode on behind it
WritesFastMode ==
    /\ config' = [config EXCEPT !.fast_mode = TRUE]
    /\ UNCHANGED <<spacy_nlp, classifier>>

\* No statement of _validate or of a method it calls assigns an attribute of
\* the validator: the flags, the spaCy pipeline and the classifier stay as
\* __init__ and the application set them. The keyword and pattern tables,
\* which no statement changes either, are the definitions above.
ReadsConfiguration == UNCHANGED <<config, spacy_nlp, classifier>>

\* Stage 2: the enabled checkers, in the order _validate calls them
Checkers(cfg) ==
    (IF cfg.check_guaranteed_returns THEN <<"_check_guaranteed_returns">> ELSE <<>>)
    \o (IF cfg.check_specific_predictions THEN <<"_check_specific_predictions">> ELSE <<>>)
    \o (IF cfg.require_disclaimers THEN <<"_check_disclaimers">> ELSE <<>>)
    \o (IF cfg.check_unlicensed_advice THEN <<"_check_unlicensed_advice">> ELSE <<>>)

\* (mutant) the disclaimer check is made whatever require_disclaimers says
PatternIssuesDisclaimersAlways(cfg, text) ==
    (IF cfg.check_guaranteed_returns THEN _check_guaranteed_returns(text) ELSE <<>>)
    \o (IF cfg.check_specific_predictions THEN _check_specific_predictions(text) ELSE <<>>)
    \o _check_disclaimers(text)
    \o (IF cfg.check_unlicensed_advice THEN _check_unlicensed_advice(text) ELSE <<>>)

\* (mutant) the disclaimer check is made first
PatternIssuesDisclaimersFirst(cfg, text) ==
    (IF cfg.require_disclaimers THEN _check_disclaimers(text) ELSE <<>>)
    \o (IF cfg.check_guaranteed_returns THEN _check_guaranteed_returns(text) ELSE <<>>)
    \o (IF cfg.check_specific_predictions THEN _check_specific_predictions(text) ELSE <<>>)
    \o (IF cfg.check_unlicensed_advice THEN _check_unlicensed_advice(text) ELSE <<>>)

\* (mutant) the list of issues is kept from one call to the next: a call
\* appends to what the call before it collected
PatternIssuesKeepsList(cfg, text) ==
    compliance_issues
    \o (IF cfg.check_guaranteed_returns THEN _check_guaranteed_returns(text) ELSE <<>>)
    \o (IF cfg.check_specific_predictions THEN _check_specific_predictions(text) ELSE <<>>)
    \o (IF cfg.require_disclaimers THEN _check_disclaimers(text) ELSE <<>>)
    \o (IF cfg.check_unlicensed_advice THEN _check_unlicensed_advice(text) ELSE <<>>)

PatternIssues(cfg, text) ==
    (IF cfg.check_guaranteed_returns THEN _check_guaranteed_returns(text) ELSE <<>>)
    \o (IF cfg.check_specific_predictions THEN _check_specific_predictions(text) ELSE <<>>)
    \o (IF cfg.require_disclaimers THEN _check_disclaimers(text) ELSE <<>>)
    \o (IF cfg.check_unlicensed_advice THEN _check_unlicensed_advice(text) ELSE <<>>)

\* (mutant) fast_mode is not looked at
CallsLlmIgnoringFastMode(cfg, issues) == cfg.use_llm_verification

\* (mutant) fast_mode switches the LLM off, issues or not
CallsLlmOnlyOutsideFastMode(cfg, issues) == cfg.use_llm_verification /\ ~ cfg.fast_mode

\* Stage 2.5: is _llm_compliance_check called?
CallsLlm(cfg, issues) ==
    IF cfg.fast_mode /\ issues # <<>>
    THEN FALSE
    ELSE cfg.use_llm_verification /\ (~ cfg.fast_mode \/ issues = <<>>)

\* (mutant) the FailResult carries the text itself as its fix
VerdictWithoutFix(text, issues) ==
    IF issues # <<>>
    THEN [type |-> "Fail", issues |-> issues, fix_value |-> text]
    ELSE [type |-> "Pass", issues |-> <<>>, fix_value |-> <<>>]

\* Stage 3: the result, with the fix of a failing text
Verdict(text, issues) ==
    IF issues # <<>>
    THEN FailResult(issues, _suggest_compliant_version(text, issues))
    ELSE PassResult

\* (mutant) the fix is computed before the verdict is known, for passing text too
Stage3AlwaysSuggests(issues, tr) ==
    /\ pc' = "done"
    /\ compliance_issues' = issues
    /\ result' = Verdict(value.text, issues)
    /\ trace' = Append(tr, "_suggest_compliant_version")

Stage3(issues, tr) ==
    /\ pc' = "done"
    /\ compliance_issues' = issues
    /\ result' = Verdict(value.text, issues)
    /\ trace' = IF issues # <<>> THEN Append(tr, "_suggest_compliant_version") ELSE tr

\* Stage 2.6: _get_spacy_risk_entities returns [] at once when no pipeline is loaded
Stage26(issues, tr) ==
    IF ~ config.fast_mode
    THEN IF spacy_nlp
         THEN /\ pc' = "spacy"
              /\ compliance_issues' = issues
              /\ trace' = Append(tr, "_get_spacy_risk_entities")
              /\ UNCHANGED result
         ELSE Stage3(issues, Append(tr, "_get_spacy_risk_entities"))
    ELSE Stage3(issues, tr)

Stage25(issues, tr) ==
    IF CallsLlm(config, issues)
    THEN /\ pc' = "llm"
         /\ compliance_issues' = issues
         /\ trace' = Append(tr, "_llm_compliance_check")
         /\ UNCHANGED result
    ELSE Stage26(issues, tr)

\* _validate is called: the print of value[:50], then the guard on the value
Validate(v) ==
    /\ pc = "idle"
    /\ value' = v
    /\ IF v.kind \in {"none", "int"}
       THEN /\ pc' = "done"
            /\ result' = Raised("TypeError")
       ELSE IF v.kind # "str" \/ v.text = <<>>
            THEN /\ pc' = "done"
                 /\ result' = PassResult
            ELSE /\ pc' = "classify"
                 /\ UNCHANGED result
    /\ ReadsConfiguration
    /\ UNCHANGED app
    /\ UNCHANGED <<llm_result, contains_financial,
                   compliance_issues, llm_outcome, spacy_outcome, trace, revalidated>>

\* (mutant) the gate of Stage 1 is lost: every text goes on to Stage 2
NeverSkipsCompliance(financial) == FALSE

\* `if not contains_financial: return PassResult()`
SkipsCompliance(financial) == ~ financial

\* Stage 1, and with it Stage 2: the classifier answers, the enabled checkers run
Classify(outcome) ==
    /\ pc = "classify"
    /\ classifier = "default" => outcome = "none"
    /\ llm_result' = outcome
    /\ LET financial == _contains_financial_content(value.text, outcome)
           tr == Append(trace, "_llm_financial_classifier")
       IN  /\ contains_financial' = financial
           /\ IF SkipsCompliance(financial)
              THEN /\ pc' = "done"
                   /\ result' = PassResult
                   /\ trace' = tr
                   /\ UNCHANGED compliance_issues
              ELSE Stage25(PatternIssues(config, value.text), tr \o Checkers(config))
    /\ ReadsConfiguration
    /\ UNCHANGED app
    /\ UNCHANGED <<value, llm_outcome, spacy_outcome, revalidated>>

\* How _llm_compliance_check can end: no API key, the Groq call raising or
\* timing out, the answer COMPLIANT, or VIOLATIONS with the issue it makes
LlmOutcomes == {"no_key", "error", "timeout", "compliant"} \cup LlmIssues

\* (mutant) fail-closed: an API error is reported as an issue
LlmReturnFailClosed(outcome) ==
    IF outcome \in LlmIssues THEN <<outcome>>
    ELSE IF outcome \in {"error", "timeout"} THEN <<"LLM detected: Unlicensed advisor claims">>
    ELSE <<>>

\* what _llm_compliance_check returns
LlmReturn(outcome) == IF outcome \in LlmIssues THEN <<outcome>> ELSE <<>>

LlmCheck(outcome) ==
    /\ pc = "llm"
    /\ llm_outcome' = outcome
    /\ Stage26(compliance_issues \o LlmReturn(outcome),
               IF outcome = "no_key" THEN trace ELSE Append(trace, "Groq"))
    /\ ReadsConfiguration
    /\ UNCHANGED app
    /\ UNCHANGED <<value, llm_result, contains_financial,
                   spacy_outcome, revalidated>>

\* What the loaded pipeline finds: no risk entity (or it raises), or some
SpacyOutcomes == {"none"} \cup SpacyIssues

SpacyReturn(outcome) == IF outcome \in SpacyIssues THEN <<outcome>> ELSE <<>>

SpacyAnalysis(outcome) ==
    /\ pc = "spacy"
    /\ spacy_outcome' = outcome
    /\ Stage3(compliance_issues \o SpacyReturn(outcome), trace)
    /\ ReadsConfiguration
    /\ UNCHANGED app
    /\ UNCHANGED <<value, llm_result, contains_financial,
                   llm_outcome, revalidated>>

\* The caller has the result; the validator is ready for the next call
Return ==
    /\ pc = "done"
    /\ pc' = "idle"
    /\ value' = [kind |-> "str", text |-> <<>>]
    /\ llm_result' = "unset"
    /\ contains_financial' = FALSE
    /\ compliance_issues' = <<>>
    /\ llm_outcome' = "unset"
    /\ spacy_outcome' = "unset"
    /\ result' = NoResult
    /\ trace' = <<>>
    /\ ReadsConfiguration
    /\ UNCHANGED app
    /\ UNCHANGED <<revalidated>>

Next ==
    \/ \E v \in Values : Validate(v)
    \/ \E outcome \in ClassifierOutcomes : Classify(outcome)
    \/ \E outcome \in LlmOutcomes : LlmCheck(outcome)
    \/ \E outcome \in SpacyOutcomes : SpacyAnalysis(outcome)
    \/ Return

Spec == Init /\ [][Next]_vars

-----------------------------------------------------------------------------
(* Validating a text and then its suggested fix, with no classifier        *)
(* injected and use_llm_verification off: no LLM call, no spaCy pipeline.  *)

\* The longest text, in tokens, whose fix is validated again
MaxFixLen == 3

FixVocab ==
    {"guaranteed", "returns", "risk-free", "investment", "cannot", "lose", "should", "buy"}

\* Advice next to a guarantee: texts one token longer, over fewer words
AdviceVocab == {"guaranteed", "returns", "should", "buy"}

\* A prediction about an investment
PredictionVocab == {"investment", "will", "reach", "$500"}

\* The texts whose fix is validated again
FixTexts ==
    TextsUpTo(FixVocab, MaxFixLen)
        \cup TextsUpTo(AdviceVocab, MaxFixLen + 1)
        \cup TextsUpTo(PredictionVocab, MaxFixLen + 1)

LocalConfigs ==
    {cfg \in Configs :
        ~ cfg.use_llm_verification /\ ~ cfg.strict_compliance /\ ~ cfg.fast_mode}

\* _validate, for a validator of LocalConfigs with the default classifier
ValidateLocally(cfg, text) ==
    IF text = <<>>
    THEN PassResult
    ELSE IF SkipsCompliance(_contains_financial_content(text, "none"))
         THEN PassResult
         ELSE Verdict(text, PatternIssues(cfg, text))

InitFix ==
    /\ config \in LocalConfigs
    /\ spacy_nlp = FALSE
    /\ classifier = "default"
    /\ pc = "text"
    /\ value \in [kind : {"str"}, text : FixTexts]
    /\ llm_result = "unset"
    /\ contains_financial = FALSE
    /\ compliance_issues = <<>>
    /\ llm_outcome = "unset"
    /\ spacy_outcome = "unset"
    /\ result = NoResult
    /\ trace = <<>>
    /\ revalidated = NoResult
    /\ app = NoApp

ValidateText ==
    /\ pc = "text"
    /\ pc' = "validated"
    /\ result' = ValidateLocally(config, value.text)
    /\ ReadsConfiguration
    /\ UNCHANGED app
    /\ UNCHANGED <<value, llm_result, contains_financial,
                   compliance_issues, llm_outcome, spacy_outcome, trace, revalidated>>

ValidateFix ==
    /\ pc = "validated"
    /\ result.type = "Fail"
    /\ pc' = "revalidated"
    /\ revalidated' = ValidateLocally(config, result.fix_value)
    /\ ReadsConfiguration
    /\ UNCHANGED app
    /\ UNCHANGED <<value, llm_result, contains_financial,
                   compliance_issues, llm_outcome, spacy_outcome, result, trace>>

NextFix == ValidateText \/ ValidateFix

FixSpec == InitFix /\ [][NextFix]_vars

-----------------------------------------------------------------------------
(* One method of the validator called on its own: a checker on a text, or  *)
(* _suggest_compliant_version on a text and a list of issues.              *)

\* The longest text, in tokens, a method is called with
MaxMethodLen == 4

MethodVocab == {"Guaranteed", "cannot", "lose", "will", "hit", "$500", "might"}

\* The lists of issues _suggest_compliant_version is called with: what the
\* four checkers can have found, in the order _validate collects it
RECURSIVE SubLists(_)
SubLists(s) ==
    IF s = <<>> THEN {<<>>}
    ELSE LET rest == SubLists(Tail(s))
         IN  rest \cup {<<Head(s)>> \o r : r \in rest}

IssueLists == SubLists(<<ISSUE_GUARANTEED, ISSUE_PREDICTION, ISSUE_DISCLAIMER, ISSUE_UNLICENSED>>)

CheckerNames ==
    {"_check_guaranteed_returns", "_check_specific_predictions",
     "_check_disclaimers", "_check_unlicensed_advice"}

\* (mutant) the checkers share a flag: once a guaranteed-return check has been
\* made, in any call, the disclaimer check reports nothing
CallCheckerSharedFlag(checker, text) ==
    CASE checker = "_check_guaranteed_returns" -> _check_guaranteed_returns(text)
      [] checker = "_check_specific_predictions" -> _check_specific_predictions(text)
      [] checker = "_check_disclaimers" ->
            IF \E call \in DOMAIN trace : "_check_guaranteed_returns" \in {trace[call][k] : k \in DOMAIN trace[call]}
            THEN <<>>
            ELSE _check_disclaimers(text)
      [] checker = "_check_unlicensed_advice" -> _check_unlicensed_advice(text)

\* self.<checker>(text)
CallChecker(checker, text) ==
    CASE checker = "_check_guaranteed_returns" -> _check_guaranteed_returns(text)
      [] checker = "_check_specific_predictions" -> _check_specific_predictions(text)
      [] checker = "_check_disclaimers" -> _check_disclaimers(text)
      [] checker = "_check_unlicensed_advice" -> _check_unlicensed_advice(text)

\* what a method returned: a list of issues, or a text
Returned(issues, text) == [type |-> "returned", issues |-> issues, fix_value |-> text]

InitMethod ==
    /\ config \in {cfg \in LocalConfigs :
                      /\ cfg.require_disclaimers /\ cfg.check_guaranteed_returns
                      /\ cfg.check_specific_predictions /\ cfg.check_unlicensed_advice}
    /\ spacy_nlp = FALSE
    /\ classifier = "default"
    /\ pc = "method"
    /\ value \in [kind : {"str"}, text : TextsUpTo(MethodVocab, MaxMethodLen)]
    /\ llm_result = "unset"
    /\ contains_financial = FALSE
    /\ compliance_issues = <<>>
    /\ llm_outcome = "unset"
    /\ spacy_outcome = "unset"
    /\ result = NoResult
    /\ trace = <<>>
    /\ revalidated = NoResult
    /\ app = NoApp

\* checker(value): result.issues is what it returned
Check(checker) ==
    /\ pc = "method"
    /\ pc' = checker
    /\ trace' = <<checker>>
    /\ result' = Returned(CallChecker(checker, value.text), <<>>)
    /\ ReadsConfiguration
    /\ UNCHANGED app
    /\ UNCHANGED <<value, llm_result, contains_financial,
                   compliance_issues, llm_outcome, spacy_outcome, revalidated>>

\* _suggest_compliant_version(value, issues): compliance_issues is the list
\* it was given, result.fix_value the text it returned
Suggest(issues) ==
    /\ pc = "method"
    /\ pc' = "_suggest_compliant_version"
    /\ trace' = <<"_suggest_compliant_version">>
    /\ compliance_issues' = issues
    /\ result' = Returned(<<>>, _suggest_compliant_version(value.text, issues))
    /\ ReadsConfiguration
    /\ UNCHANGED app
    /\ UNCHANGED <<value, llm_result, contains_financial,
                   llm_outcome, spacy_outcome, revalidated>>

NextMethod ==
    \/ \E checker \in CheckerNames : Check(checker)
    \/ \E issues \in IssueLists : Suggest(issues)

MethodSpec == InitMethod /\ [][NextMethod]_vars

-----------------------------------------------------------------------------
(* One validator, no classifier injected and use_llm_verification off,     *)
(* called several times: a first call, the same call again, and other      *)
(* calls before, between and after.                                        *)

\* The most calls made on one validator
MaxCalls == 3

\* The values the calls are made with: texts that pass, texts that fail on one
\* issue or on four, the empty text, and values that are no str
RepeatValues ==
    [kind : {"str"},
     text : {<<>>, <<"returns">>, <<"buy", "returns">>, <<"100%", "guaranteed">>,
             <<"guaranteed", "returns">>, <<"should", "buy">>, AllIssuesText}]
        \cup [kind : {"none", "int", "list"}, text : {<<>>}]

\* _validate(value), for a validator of LocalConfigs with the default classifier
ValidateValue(cfg, v) ==
    IF v.kind \in {"none", "int"}
    THEN Raised("TypeError")
    ELSE IF v.kind # "str"
         THEN PassResult
         ELSE ValidateLocally(cfg, v.text)

InitRepeat ==
    /\ config \in LocalConfigs
    /\ spacy_nlp = FALSE
    /\ classifier = "default"
    /\ pc = "idle"
    /\ value = [kind |-> "str", text |-> <<>>]
    /\ llm_result = "unset"
    /\ contains_financial = FALSE
    /\ compliance_issues = <<>>
    /\ llm_outcome = "unset"
    /\ spacy_outcome = "unset"
    /\ result = NoResult
    /\ trace = <<>>
    /\ revalidated = NoResult
    /\ app = NoApp

\* the call whose result is kept: value is its argument, result what it returned
FirstCall(v) ==
    /\ pc = "idle"
    /\ Len(trace) < MaxCalls
    /\ pc' = "called"
    /\ value' = v
    /\ result' = ValidateValue(config, v)
    /\ compliance_issues' = result'.issues
    /\ trace' = Append(trace, "_validate")
    /\ ReadsConfiguration
    /\ UNCHANGED app
    /\ UNCHANGED <<llm_result, contains_financial,
                   llm_outcome, spacy_outcome, revalidated>>

\* any other call, before the first call or after it: the caller drops its result
OtherCall(v) ==
    /\ pc \in {"idle", "called"}
    /\ Len(trace) < MaxCalls
    /\ compliance_issues' = ValidateValue(config, v).issues
    /\ trace' = Append(trace, "_validate")
    /\ ReadsConfiguration
    /\ UNCHANGED app
    /\ UNCHANGED <<pc, value, llm_result, contains_financial,
                   llm_outcome, spacy_outcome, result, revalidated>>

\* the first call made again: revalidated is what it returned this time
SameCall ==
    /\ pc = "called"
    /\ Len(trace) < MaxCalls
    /\ pc' = "repeated"
    /\ revalidated' = ValidateValue(config, value)
    /\ compliance_issues' = revalidated'.issues
    /\ trace' = Append(trace, "_validate")
    /\ ReadsConfiguration
    /\ UNCHANGED app
    /\ UNCHANGED <<value, llm_result, contains_financial,
                   llm_outcome, spacy_outcome, result>>

NextRepeat ==
    \/ \E v \in RepeatValues : FirstCall(v)
    \/ \E v \in RepeatValues : OtherCall(v)
    \/ SameCall

RepeatSpec == InitRepeat /\ [][NextRepeat]_vars

-----------------------------------------------------------------------------
(* The four checkers of one validator called in any order on the texts of   *)
(* two calls, the checks of one call between the checks of the other; each  *)
(* call extends its own list with what each checker returns, as _validate   *)
(* does, and makes its result of the list once the four have returned.      *)

\* The two calls
Calls == {"this", "other"}

\* The texts of the calls: a text each checker has an issue for, one with a
\* guarantee, one with advice
OrderTexts == {AllIssuesText, <<"guaranteed", "returns">>, <<"should", "buy">>}

InitOrder ==
    /\ config \in {cfg \in LocalConfigs :
                      /\ cfg.require_disclaimers /\ cfg.check_guaranteed_returns
                      /\ cfg.check_specific_predictions /\ cfg.check_unlicensed_advice}
    /\ spacy_nlp = FALSE
    /\ classifier = "default"
    /\ pc = [call \in Calls |-> "checkers"]
    /\ value \in [Calls -> [kind : {"str"}, text : OrderTexts]]
    /\ llm_result = "unset"
    /\ contains_financial = TRUE
    /\ compliance_issues = [call \in Calls |-> <<>>]
    /\ llm_outcome = "unset"
    /\ spacy_outcome = "unset"
    /\ result = [call \in Calls |-> NoResult]
    /\ trace = [call \in Calls |-> <<>>]
    /\ revalidated = NoResult
    /\ app = NoApp

\* compliance_issues.extend(self.<checker>(value)), for a checker the call
\* has not run yet
RunChecker(call, checker) ==
    /\ pc[call] = "checkers"
    /\ \A k \in DOMAIN trace[call] : trace[call][k] # checker
    /\ trace' = [trace EXCEPT ![call] = Append(@, checker)]
    /\ compliance_issues' =
           [compliance_issues EXCEPT ![call] = @ \o CallChecker(checker, value[call].text)]
    /\ ReadsConfiguration
    /\ UNCHANGED app
    /\ UNCHANGED <<pc, value, llm_result, contains_financial,
                   llm_outcome, spacy_outcome, result, revalidated>>

\* the result of the call, of the issues its four checkers returned
Aggregate(call) ==
    /\ pc[call] = "checkers"
    /\ Len(trace[call]) = Len(Checkers(config))
    /\ pc' = [pc EXCEPT ![call] = "done"]
    /\ result' = [result EXCEPT ![call] = Verdict(value[call].text, compliance_issues[call])]
    /\ ReadsConfiguration
    /\ UNCHANGED app
    /\ UNCHANGED <<value, llm_result, contains_financial, compliance_issues,
                   llm_outcome, spacy_outcome, trace, revalidated>>

NextOrder ==
    \/ \E call \in Calls, checker \in CheckerNames : RunChecker(call, checker)
    \/ \E call \in Calls : Aggregate(call)

OrderSpec == InitOrder /\ [][NextOrder]_vars

-----------------------------------------------------------------------------
(* GradioFinancialAdvisor: one process_question call of the application      *)
(* around a prompt validator and a response validator. A question is its     *)
(* tokens and whether white space stands around them; the messages are       *)
(* written without the marks the source puts before them.                   *)

\* The longest question, in tokens
MaxQuestionLen == 2

QuestionVocab == {"a", "guaranteed", "returns"}

\* user_question: "" is no token and no white space, "   " no token in white space
Questions == [text : TextsUpTo(QuestionVocab, MaxQuestionLen), space : BOOLEAN]

\* self.prompt_validator and self.response_validator, as __init__ builds them
prompt_validator ==
    [require_disclaimers |-> FALSE, check_guaranteed_returns |-> TRUE,
     check_specific_predictions |-> TRUE, check_unlicensed_advice |-> FALSE,
     use_llm_verification |-> FALSE, strict_compliance |-> TRUE, fast_mode |-> TRUE]

response_validator ==
    [require_disclaimers |-> TRUE, check_guaranteed_returns |-> TRUE,
     check_specific_predictions |-> TRUE, check_unlicensed_advice |-> TRUE,
     use_llm_verification |-> FALSE, strict_compliance |-> TRUE, fast_mode |-> TRUE]

\* What generate_financial_advice returns: a message that starts with the
\* cross mark (no model, no text, an exception), or the model's text stripped,
\* which can be empty
GenerationError == [kind |-> "error", text |-> <<>>]

Generated ==
    {GenerationError}
        \cup [kind : {"text"},
              text : {<<>>, <<"a">>, <<"should", "buy">>, <<"guaranteed", "returns">>,
                       <<"investment", "will", "reach", "$500">>, AllIssuesText}]

\* The paragraph _rule_based_compliance_fix appends
IMPORTANT_DISCLAIMER ==
    "\n\n**Important Disclaimer**: This information is for educational purposes only and is not personalized financial advice. Always consult with a qualified financial advisor before making investment decisions. Past performance does not guarantee future results, and all investments carry risk."

\* The messages
PleaseEnter == "Please enter a question about finance or investments."

\* self._llm_financial_classifier: None without a model, and when the model
\* answers nothing or raises; else whether the answer holds YES
AppClassifierOutcomes(self) == IF self.model THEN {"yes", "no", "none"} ELSE {"none"}

\* validator._validate(text, {}) for the two validators of the application:
\* use_llm_verification is off and fast_mode on, so neither the LLM nor the
\* spaCy analysis is called
ValidateFast(cfg, text, outcome) ==
    IF text = <<>>
    THEN PassResult
    ELSE IF SkipsCompliance(_contains_financial_content(text, outcome))
         THEN PassResult
         ELSE LET issues == PatternIssues(cfg, text)
              IN  IF CallsLlm(cfg, issues) THEN Raised("unmodelled") ELSE Verdict(text, issues)

\* what a method of the application returned, or the exception that left it
AppReturned(values) == [type |-> "returned", values |-> values]

AppRaised(exception) == [type |-> exception, values |-> <<>>]

\* self.template_manager.render_...(...): self.template_manager is None when
\* jinja2 is missing
Render(self, html) == IF self.template_manager THEN AppReturned(html) ELSE AppRaised("AttributeError")

\* validate_user_prompt: three values for a blank prompt, four otherwise; the
\* analysis page is rendered inside the try and, when that raises, again in
\* the except branch
validate_user_prompt(self, prompt, outcome) ==
    IF prompt.text = <<>>
    THEN AppReturned(<<FALSE, <<>>, PleaseEnter>>)
    ELSE LET validation_result == ValidateFast(prompt_validator, prompt.text, outcome)
         IN  IF validation_result.type = "Fail"
             THEN LET prompt_analysis_html == Render(self, "prompt_analysis_html")
                  IN  IF prompt_analysis_html.type = "returned"
                      THEN AppReturned(<<TRUE, prompt.text,
                                         <<"Your question contains:", validation_result.issues>>,
                                         prompt_analysis_html.values>>)
                      ELSE Render(self, "prompt_analysis_html")
             ELSE AppReturned(<<TRUE, prompt.text, "Question looks good!", "">>)

\* every token that is one of `tokens`, whatever its case, replaced by r
RECURSIVE Swap(_, _, _)
Swap(t, tokens, r) ==
    IF t = <<>> THEN <<>>
    ELSE (IF LowerTok[Head(t)] \in tokens THEN r ELSE <<Head(t)>>) \o Swap(Tail(t), tokens, r)

_rule_based_compliance_fix(text) ==
    LET guarantee == Sub(text, <<GuaranteeWords>>, <<"potentially", "offer">>)
        risk_free == Sub(Swap(guarantee, {"risk-free"}, <<"lower", "risk">>),
                         <<{"risk"}, {"free"}>>, <<"lower", "risk">>)
        cannot_lose == Sub(risk_free, <<{"cannot"}, {"lose"}>>,
                           <<"may", "have", "lower", "risk", "of", "loss">>)
        definitely == Sub(cannot_lose, <<{"will"}, {"definitely"}>>, <<"might">>)
        will_hit == Sub(definitely, <<{"will"}, {"hit"}>>, <<"could", "potentially", "reach">>)
        be_worth == Sub(will_hit, <<{"will"}, {"be"}, {"worth"}>>, <<"might", "be", "valued", "at">>)
        enhanced == Sub(be_worth, <<{"will"}, {"increase"}>>, <<"could", "potentially", "increase">>)
        has_financial_terms ==
            \E keyword \in {"invest", "stock", "buy", "sell", "trading", "portfolio",
                            "profit", "return"} : Contains(Lowered(enhanced), keyword)
        has_disclaimer ==
            \E disclaimer \in {"not financial advice", "not investment advice", "consult",
                               "professional"} : Contains(Lowered(enhanced), disclaimer)
    IN  IF has_financial_terms /\ ~ has_disclaimer
        THEN Append(enhanced, IMPORTANT_DISCLAIMER)
        ELSE enhanced

\* validate_ai_response: the comparison page is rendered inside the try and,
\* when that raises, again in the except branch, after the rule-based fix
validate_ai_response(self, response, outcome) ==
    IF response.kind = "error" \/ response.text = <<>>
    THEN AppReturned(<<response.text, "Response validation skipped due to generation error",
                       FALSE, "">>)
    ELSE LET validation_result == ValidateFast(response_validator, response.text, outcome)
             compliant_response == validation_result.fix_value
             comparison_html == Render(self, "comparison_html")
         IN  IF validation_result.type = "Fail"
             THEN IF comparison_html.type # "returned"
                  THEN Render(self, "comparison_html")
                  ELSE IF compliant_response # <<>> /\ compliant_response # response.text
                       THEN AppReturned(<<compliant_response,
                                          <<"Response enhanced for compliance",
                                            validation_result.issues>>,
                                          FALSE, comparison_html.values>>)
                       ELSE AppReturned(<<_rule_based_compliance_fix(response.text),
                                          <<"Applied rule-based compliance fixes",
                                            validation_result.issues>>,
                                          TRUE, comparison_html.values>>)
             ELSE AppReturned(<<response.text,
                                "Response meets all financial compliance requirements",
                                FALSE, "">>)

\* The history the call is given: empty, or one earlier turn
Histories == {<<>>, << <<[text |-> <<"a">>, space |-> FALSE], <<"a">>>> >>}

InitApp ==
    /\ config = [prompt_validator |-> prompt_validator, response_validator |-> response_validator]
    /\ spacy_nlp = FALSE
    /\ app \in [template_manager : BOOLEAN, model : BOOLEAN, history : Histories,
                given : Histories, prompt : {<<>>}, ai_response : {GenerationError},
                response : {<<>>}]
    /\ app.given = app.history
    /\ classifier = IF app.model THEN "injected" ELSE "default"
    /\ pc = "idle"
    /\ value = [text |-> <<>>, space |-> FALSE]
    /\ llm_result = "unset"
    /\ contains_financial = FALSE
    /\ compliance_issues = <<>>
    /\ llm_outcome = "unset"
    /\ spacy_outcome = "unset"
    /\ result = NoResult
    /\ trace = <<>>
    /\ revalidated = NoResult

\* what the application leaves alone in every step of a call
AppUnchanged ==
    UNCHANGED <<config, spacy_nlp, classifier, contains_financial,
                compliance_issues, llm_outcome, spacy_outcome, revalidated>>

\* process_question(user_question, history), up to Step 1: `if not user_question`
ProcessQuestion(user_question) ==
    /\ pc = "idle"
    /\ value' = user_question
    /\ IF user_question.text = <<>> /\ ~ user_question.space
       THEN /\ pc' = "returned"
            /\ result' = AppReturned(<<app.history, "", PleaseEnter>>)
       ELSE /\ pc' = "step1"
            /\ UNCHANGED result
    /\ UNCHANGED <<app, trace, llm_result>>
    /\ AppUnchanged

\* Step 1: validate_user_prompt, its values unpacked into four names
Step1(outcome) ==
    /\ pc = "step1"
    /\ trace' = Append(trace, "validate_user_prompt")
    /\ llm_result' = outcome
    /\ \E prompt \in {validate_user_prompt(app, value, outcome)} :
           IF prompt.type # "returned"
           THEN /\ pc' = "raised"
                /\ result' = AppRaised(prompt.type)
                /\ UNCHANGED app
           ELSE IF Len(prompt.values) # 4
                THEN /\ pc' = "raised"
                     /\ result' = AppRaised("ValueError")
                     /\ UNCHANGED app
                ELSE IF ~ prompt.values[1]
                     THEN /\ pc' = "returned"
                          /\ app' = [app EXCEPT
                                        !.prompt = prompt.values,
                                        !.history = Append(@, <<value, prompt.values[3]>>)]
                          /\ result' = AppReturned(<<app'.history, "", prompt.values[3]>>)
                     ELSE /\ pc' = "step2"
                          /\ app' = [app EXCEPT !.prompt = prompt.values]
                          /\ UNCHANGED result
    /\ UNCHANGED value
    /\ AppUnchanged

\* Step 2: generate_financial_advice(processed_prompt), which raises nothing
Step2(ai_response) ==
    /\ pc = "step2"
    /\ ~ app.model => ai_response = GenerationError
    /\ pc' = "step3"
    /\ trace' = Append(trace, "generate_financial_advice")
    /\ app' = [app EXCEPT !.ai_response = ai_response]
    /\ UNCHANGED <<value, result, llm_result>>
    /\ AppUnchanged

\* Step 3 to the end: validate_ai_response, the history, the validation info
Step3(outcome) ==
    /\ pc = "step3"
    /\ trace' = Append(trace, "validate_ai_response")
    /\ llm_result' = outcome
    /\ \E response \in {validate_ai_response(app, app.ai_response, outcome)} :
           IF response.type # "returned"
           THEN /\ pc' = "raised"
                /\ result' = AppRaised(response.type)
                /\ UNCHANGED app
           ELSE /\ pc' = "returned"
                /\ app' = [app EXCEPT
                              !.response = response.values,
                              !.history = Append(@, <<value, response.values[1]>>)]
                /\ result' = AppReturned(<<app'.history, "",
                                           <<app.prompt[3], response.values[2],
                                             response.values[3]>> >>)
    /\ UNCHANGED value
    /\ AppUnchanged

NextApp ==
    \/ \E user_question \in Questions : ProcessQuestion(user_question)
    \/ \E outcome \in AppClassifierOutcomes(app) : Step1(outcome)
    \/ \E ai_response \in Generated : Step2(ai_response)
    \/ \E outcome \in AppClassifierOutcomes(app) : Step3(outcome)

AppSpec == InitApp /\ [][NextApp]_vars

-----------------------------------------------------------------------------
(* The claims                                                              *)

\* What the enabled checkers find, and what the pattern heuristics of Stage 1
\* answer, for every text a call is made with. (`@@ <<>>` has TLC evaluate
\* each function once, to a table, instead of at every application.)
LocalIssues ==
    [cfg \in Configs |->
        [t \in CallTexts |-> PatternIssues(cfg, t)] @@ <<>>] @@ <<>>

Heuristics == [t \in CallTexts |-> PatternDetection(t)] @@ <<>>

\* The texts in which an advice indicator matches and no disclaimer keyword occurs
AdviceWithoutDisclaimer ==
    [t \in CallTexts |->
        /\ AnyMatch(advice_indicators(Lowered(t)))
        /\ \A keyword \in disclaimer_keywords : ~ Contains(Lowered(t), keyword)] @@ <<>>

Range(s) == {s[k] : k \in DOMAIN s}

Count(s, e) == Cardinality({k \in DOMAIN s : s[k] = e})

\* Stage 1 has run in the current call
Classified == llm_result # "unset"

\* the text of the current call matches a guaranteed_return pattern
MatchesGuarantee == AnyMatch(guaranteed_return_patterns(Lowered(value.text)))

\* what the LLM stage and the spaCy stage added in the current call
LlmAdded == IF llm_outcome \in LlmIssues THEN <<llm_outcome>> ELSE <<>>

SpacyAdded == IF spacy_outcome \in SpacyIssues THEN <<spacy_outcome>> ELSE <<>>

\* C1: when Stage 1 reports the text as non-financial, the call returns Pass,
\* and it has run no rule checker, no LLM check, no spaCy stage and no fix:
\* the classifier is the only thing it called.
C1_NonFinancialPasses ==
    (pc = "done" /\ Classified /\ ~ contains_financial)
        => /\ result = PassResult
           /\ trace = <<"_llm_financial_classifier">>
           /\ compliance_issues = <<>>
           /\ llm_outcome = "unset"
           /\ spacy_outcome = "unset"

\* C1's case: a non-financial text that a guaranteed_return pattern matches,
\* with that checker enabled, has passed.
C1_Witness ==
    /\ pc = "done" /\ Classified
    /\ ~ _contains_financial_content(value.text, llm_result)
    /\ config.check_guaranteed_returns /\ MatchesGuarantee
    /\ result = PassResult

\* C2 as claimed: every text that a guaranteed_return pattern matches, with
\* check_guaranteed_returns enabled, fails with the guaranteed-return issue,
\* financial or not.
C2_EveryMatchFails ==
    (pc = "done" /\ value.kind = "str" /\ config.check_guaranteed_returns /\ MatchesGuarantee)
        => result.type = "Fail" /\ ISSUE_GUARANTEED \in Range(result.issues)

\* C2 amended: every text that Stage 1 reports as financial and that a
\* guaranteed_return pattern matches, with check_guaranteed_returns enabled,
\* fails, and the guaranteed-return issue is the first of its issues.
C2_FinancialMatchFails ==
    (/\ pc = "done" /\ Classified /\ contains_financial
     /\ config.check_guaranteed_returns /\ MatchesGuarantee)
        => /\ result.type = "Fail"
           /\ ISSUE_GUARANTEED \in Range(result.issues)
           /\ result.issues[1] = ISSUE_GUARANTEED

\* C2's case: a text with no financial keyword that only the classifier's
\* "yes" makes financial, matched by the pattern `100% guaranteed`, has failed.
C2_Witness ==
    /\ pc = "done" /\ llm_result = "yes"
    /\ ~ Heuristics[value.text]
    /\ config.check_guaranteed_returns /\ MatchesGuarantee
    /\ result.type = "Fail"

\* C3 as claimed: for financial text the verdict is made of the checkers'
\* issues and the LLM's and of nothing else.
C3_OnlyLocalAndSecondary ==
    (pc = "done" /\ Classified /\ contains_financial)
        => LET issues == LocalIssues[config][value.text] \o LlmAdded
           IN  /\ result.type = "Pass" <=> issues = <<>>
               /\ issues # <<>> =>
                    result = FailResult(issues, _suggest_compliant_version(value.text, issues))

\* C3 amended: for financial text the call returns Pass exactly when the
\* checkers' issues, then the LLM's, then the spaCy stage's issue are together
\* empty; otherwise Fail with exactly these issues in this order and the fix
\* _suggest_compliant_version makes of the text and these issues.
C3_VerdictFromAllStages ==
    (pc = "done" /\ Classified /\ contains_financial)
        => LET issues == LocalIssues[config][value.text] \o LlmAdded \o SpacyAdded
           IN  /\ result.type \in {"Pass", "Fail"}
               /\ result.type = "Pass" <=> issues = <<>>
               /\ result.type = "Pass" => result = PassResult
               /\ issues # <<>> =>
                    result = FailResult(issues, _suggest_compliant_version(value.text, issues))

\* C3's case: a failed call whose issues come from all three stages, the fix
\* differing from the text.
C3_Witness ==
    /\ pc = "done" /\ contains_financial
    /\ LocalIssues[config][value.text] # <<>>
    /\ llm_outcome \in LlmIssues /\ spacy_outcome \in SpacyIssues
    /\ Len(result.issues) = Len(LocalIssues[config][value.text]) + 2
    /\ result.fix_value # value.text

\* C4: in a call of a validator with fast_mode on in which the rule checkers
\* found an issue, _llm_compliance_check is never called and no Groq request
\* is made, use_llm_verification on or off.
C4_FastModeSkipsLlm ==
    (/\ config.fast_mode /\ Classified /\ contains_financial
     /\ LocalIssues[config][value.text] # <<>>)
        => /\ Count(trace, "_llm_compliance_check") = 0
           /\ Count(trace, "Groq") = 0
           /\ llm_outcome = "unset"
           /\ pc # "llm"

\* C4's case: fast_mode and use_llm_verification both on, a local issue, the
\* call has failed.
C4_Witness ==
    /\ pc = "done" /\ config.fast_mode /\ config.use_llm_verification
    /\ contains_financial /\ LocalIssues[config][value.text] # <<>>
    /\ result.type = "Fail"

\* C5: a finished call on financial text has called _llm_compliance_check
\* exactly once if use_llm_verification is on and fast_mode is off or the
\* checkers found nothing, also when the Groq request failed; no call ever
\* calls it twice or makes two Groq requests; with use_llm_verification off
\* it is never called.
C5_LlmCalledOnce ==
    /\ Count(trace, "_llm_compliance_check") <= 1
    /\ Count(trace, "Groq") <= 1
    /\ ~ config.use_llm_verification => Count(trace, "_llm_compliance_check") = 0
    /\ (/\ pc = "done" /\ Classified /\ contains_financial /\ config.use_llm_verification
        /\ (~ config.fast_mode \/ LocalIssues[config][value.text] = <<>>))
          => Count(trace, "_llm_compliance_check") = 1 /\ llm_outcome # "unset"

\* C5's case: fast_mode on, no local issue, the one Groq request failed and
\* the call is over.
C5_Witness ==
    /\ pc = "done" /\ config.fast_mode /\ config.use_llm_verification
    /\ contains_financial /\ LocalIssues[config][value.text] = <<>>
    /\ llm_outcome = "error"
    /\ Count(trace, "_llm_compliance_check") = 1 /\ Count(trace, "Groq") = 1

LlmFailures == {"no_key", "error", "timeout"}

\* C6: when _llm_compliance_check fails (no key, error, timeout) the call
\* raises nothing, the LLM stage adds no issue, and the result is the one an
\* LLM answer with no issues gives: the verdict of the checkers' issues and
\* the spaCy stage's.
C6_LlmFailureIsNoIssue ==
    (llm_outcome \in LlmFailures)
        => /\ pc = "spacy" => compliance_issues = LocalIssues[config][value.text]
           /\ pc = "done" =>
                LET issues == LocalIssues[config][value.text] \o SpacyAdded
                IN  result = IF issues = <<>>
                             THEN PassResult
                             ELSE FailResult(issues, _suggest_compliant_version(value.text, issues))

\* C6's case: the Groq request of a call on financial text with no local
\* issue timed out, and the call passed.
C6_Witness ==
    /\ pc = "done" /\ llm_outcome = "timeout" /\ contains_financial
    /\ result = PassResult

\* C7: when the injected classifier raises or returns None, Stage 1 answers
\* what the pattern heuristics answer, nothing is raised, and the call ends
\* as it does with no classifier injected: Pass for text the heuristics call
\* non-financial, the verdict of the collected issues otherwise.
C7_ClassifierFailureFallsBack ==
    (classifier = "injected" /\ llm_result \in {"none", "raise"})
        => /\ contains_financial = Heuristics[value.text]
           /\ pc = "done" =>
                LET issues == LocalIssues[config][value.text] \o LlmAdded \o SpacyAdded
                IN  result = IF ~ Heuristics[value.text] \/ issues = <<>>
                             THEN PassResult
                             ELSE FailResult(issues, _suggest_compliant_version(value.text, issues))

\* C7's case: the injected classifier raised on a text the heuristics call
\* financial, and the call failed on a local issue.
C7_Witness ==
    /\ pc = "done" /\ classifier = "injected" /\ llm_result = "raise"
    /\ Heuristics[value.text]
    /\ result.type = "Fail"

\* C8: a definite answer of the classifier is Stage 1's answer. After False
\* the call returns Pass having run nothing else, whatever patterns match;
\* after True every enabled checker has run and the result carries what the
\* checkers found, financial keywords or not.
C8_DefiniteAnswerDecides ==
    /\ llm_result = "no" =>
          /\ ~ contains_financial
          /\ pc = "done" /\ result = PassResult
          /\ trace = <<"_llm_financial_classifier">>
    /\ llm_result = "yes" =>
          /\ contains_financial
          /\ SubSeq(trace, 1, 1 + Len(Checkers(config)))
                = <<"_llm_financial_classifier">> \o Checkers(config)
          /\ pc = "done" =>
                LET local == LocalIssues[config][value.text]
                IN  SubSeq(result.issues, 1, Len(local)) = local

\* C8's case: the classifier said False of a text that the heuristics call
\* financial and in which the checkers find an issue, and the call passed.
C8_Witness ==
    /\ pc = "done" /\ llm_result = "no"
    /\ Heuristics[value.text]
    /\ LocalIssues[config][value.text] # <<>>
    /\ result = PassResult

\* C9 as claimed: a call with an empty text or with a value that is no str
\* (None, a number, a list) returns Pass, raises nothing and calls nothing.
C9_NonTextPasses ==
    (pc = "done" /\ (value.kind # "str" \/ value.text = <<>>))
        => result = PassResult /\ trace = <<>>

\* C10 as claimed: when a text fails with the guaranteed-return issue alone
\* (all four checkers enabled), validating its suggested fix does not report
\* the guaranteed-return issue again.
C10_FixEndsGuaranteeIssue ==
    (/\ pc = "revalidated"
     /\ config.check_guaranteed_returns /\ config.check_specific_predictions
     /\ config.require_disclaimers /\ config.check_unlicensed_advice
     /\ result.issues = <<ISSUE_GUARANTEED>>)
        => ISSUE_GUARANTEED \notin Range(revalidated.issues)

\* C11: _suggest_compliant_version called with an empty list of issues
\* returns the text it was given, token for token, whatever wording the text
\* holds.
C11_NoIssuesNoChange ==
    (pc = "_suggest_compliant_version" /\ compliance_issues = <<>>)
        => result.fix_value = value.text

\* C11's case: a text holding wording every transform rewrites (a guarantee
\* word in capitals, `cannot lose`, `will hit`) came back from a call with no
\* issues.
C11_Witness ==
    /\ pc = "_suggest_compliant_version" /\ compliance_issues = <<>>
    /\ \/ value.text = <<"Guaranteed", "cannot", "lose">>
       \/ value.text = <<"will", "hit", "$500">>
    /\ result.fix_value = value.text

\* C12: with require_disclaimers on, a call on a text that Stage 1 reports
\* as financial, in which an advice indicator matches and no disclaimer
\* keyword occurs, returns Fail; its issues hold the disclaimer issue, and its
\* fix holds the phrase "not financial advice", in the paragraph appended at
\* the end of the text.
C12_AdviceNeedsDisclaimer ==
    (/\ pc = "done" /\ Classified /\ contains_financial
     /\ config.require_disclaimers /\ AdviceWithoutDisclaimer[value.text])
        => /\ result.type = "Fail"
           /\ ISSUE_DISCLAIMER \in Range(result.issues)
           /\ Contains(result.fix_value, "not financial advice")
           /\ result.fix_value[Len(result.fix_value)] = DISCLAIMER

\* C12's case: `should buy`, financial by its advice indicator alone, has
\* failed on the disclaimer issue alone.
C12_Witness ==
    /\ pc = "done" /\ llm_result = "none" /\ contains_financial
    /\ config.require_disclaimers
    /\ value.text = <<"should", "buy">>
    /\ result.issues = <<ISSUE_DISCLAIMER>>
    /\ result.fix_value = <<"should", "buy", DISCLAIMER>>

\* some specific_prediction pattern matches the lowercased text of the call
MatchesPrediction == AnyMatch(specific_prediction_patterns(Lowered(value.text)))

\* one of the uncertainty words occurs in the lowercased text of the call
HasUncertainty == \E word \in uncertainty_words : Contains(Lowered(value.text), word)

\* C13: _check_specific_predictions returns its one issue exactly when some
\* specific_prediction pattern matches the text and none of the uncertainty
\* words occurs in the text, before or after the prediction; otherwise it
\* returns no issue.
C13_PredictionUnlessHedged ==
    (pc = "_check_specific_predictions")
        => /\ result.issues \in {<<>>, <<ISSUE_PREDICTION>>}
           /\ result.issues = <<ISSUE_PREDICTION>> <=> (MatchesPrediction /\ ~ HasUncertainty)

\* C13's case: `might will hit $500`, a prediction with the hedge word before
\* it, has been let through by the checker.
C13_Witness ==
    /\ pc = "_check_specific_predictions"
    /\ value.text = <<"might", "will", "hit", "$500">>
    /\ MatchesPrediction /\ HasUncertainty
    /\ result.issues = <<>>

C15_FastModeSameVerdict ==
    (pc = "done" /\ Classified /\ ~ config.use_llm_verification)
        => LET other == [config EXCEPT !.fast_mode = ~ @]
               financial == IF llm_result \in {"yes", "no"}
                            THEN llm_result = "yes"
                            ELSE Heuristics[value.text]
               issues == LocalIssues[other][value.text]
           IN  /\ contains_financial = financial
               /\ result.type = IF financial /\ issues # <<>> THEN "Fail" ELSE "Pass"
               /\ result.issues = IF financial THEN issues ELSE <<>>

\* C15's case: with use_llm_verification off and fast_mode off, a call that
\* went through the spaCy stage, no pipeline loaded, has failed on the
\* checkers' issues.
C15_Witness ==
    /\ pc = "done" /\ ~ config.use_llm_verification /\ ~ config.fast_mode
    /\ contains_financial
    /\ "_get_spacy_risk_entities" \in Range(trace)
    /\ result.type = "Fail"
    /\ result.issues = LocalIssues[[config EXCEPT !.fast_mode = TRUE]][value.text]

\* the place of an issue's category in the order of detection
Category(issue) ==
    CASE issue = ISSUE_GUARANTEED -> 1
      [] issue = ISSUE_PREDICTION -> 2
      [] issue = ISSUE_DISCLAIMER -> 3
      [] issue = ISSUE_UNLICENSED -> 4
      [] issue \in LlmIssues -> 5
      [] issue \in SpacyIssues -> 6

\* C16: the issues of a result, and the issues a call has collected so far,
\* stand in the order of detection: guaranteed returns, specific predictions,
\* disclaimers, unlicensed advice, then the LLM's issue (and last the spaCy
\* stage's); no issue of a later category stands before one of an earlier.
C16_IssuesInDetectionOrder ==
    /\ \A i, j \in DOMAIN result.issues :
          i < j => Category(result.issues[i]) < Category(result.issues[j])
    /\ \A i, j \in DOMAIN compliance_issues :
          i < j => Category(compliance_issues[i]) < Category(compliance_issues[j])

\* C16's case: a text in which all four checkers find their issue has
\* failed with these four, the LLM's and the spaCy stage's, six in all.
C16_Witness ==
    /\ pc = "done" /\ value.text = AllIssuesText
    /\ llm_outcome \in LlmIssues /\ spacy_outcome \in SpacyIssues
    /\ result.type = "Fail"
    /\ Len(result.issues) = 6
    /\ SubSeq(result.issues, 1, 4)
          = <<ISSUE_GUARANTEED, ISSUE_PREDICTION, ISSUE_DISCLAIMER, ISSUE_UNLICENSED>>
    /\ result.issues[5] = llm_outcome

\* a checker whose flag is off has not been called in the current call, and
\* its issue is neither in the list the call collects nor in the result
Unused(flag, checker, issue) ==
    ~ flag => /\ checker \notin Range(trace)
              /\ issue \notin Range(compliance_issues)
              /\ issue \notin Range(result.issues)

\* C17: each of the four checkers, when its flag is off, is not called during
\* a call of _validate, and the result holds no issue of its wording,
\* whatever the text.
C17_DisabledCheckerUnused ==
    /\ Unused(config.check_guaranteed_returns, "_check_guaranteed_returns", ISSUE_GUARANTEED)
    /\ Unused(config.check_specific_predictions, "_check_specific_predictions", ISSUE_PREDICTION)
    /\ Unused(config.require_disclaimers, "_check_disclaimers", ISSUE_DISCLAIMER)
    /\ Unused(config.check_unlicensed_advice, "_check_unlicensed_advice", ISSUE_UNLICENSED)

\* C17's case: with all four flags off, the text in which each checker would
\* find its issue has gone through Stage 2 and passed.
C17_Witness ==
    /\ pc = "done" /\ contains_financial
    /\ value.text = AllIssuesText
    /\ ~ config.check_guaranteed_returns /\ ~ config.check_specific_predictions
    /\ ~ config.require_disclaimers /\ ~ config.check_unlicensed_advice
    /\ result = PassResult

\* the issues of a list that do not hold the word "disclaimer"
WithoutDisclaimerIssues(issues) ==
    SelectSeq(issues, LAMBDA issue : "disclaimer" \notin Mentions[issue])

\* C18 as claimed: _suggest_compliant_version softens the guarantee wording,
\* then the predictions, and last appends the disclaimer paragraph, only if
\* a disclaimer issue is present and no disclaimer keyword occurs in the text
\* the two softenings made.
C18_AppendsOnlyIfMissing ==
    (pc = "_suggest_compliant_version")
        => result.fix_value = SuggestAppendsIfMissing(value.text, compliance_issues)

\* C18 amended: _suggest_compliant_version appends the disclaimer paragraph,
\* at the end of the text, whenever an issue holds the word "disclaimer",
\* whatever the text holds before or after the softenings; what stands before
\* the paragraph is the text with the two softenings the other issues call
\* for, and with no such issue no paragraph is appended.
C18_AppendsOnDisclaimerIssue ==
    (pc = "_suggest_compliant_version")
        => LET fix == result.fix_value
               others == WithoutDisclaimerIssues(compliance_issues)
           IN  IF AnyMentions(compliance_issues, "disclaimer")
               THEN /\ fix # <<>>
                    /\ fix[Len(fix)] = DISCLAIMER
                    /\ SubSeq(fix, 1, Len(fix) - 1)
                          = _suggest_compliant_version(value.text, others)
                    /\ DISCLAIMER \notin Range(SubSeq(fix, 1, Len(fix) - 1))
               ELSE DISCLAIMER \notin Range(fix)

\* C18's case: `cannot lose`, with the guaranteed-return issue and the
\* disclaimer issue, came back as `may have lower risk`, in which the
\* disclaimer keyword "risk" occurs, with the paragraph appended.
C18_Witness ==
    /\ pc = "_suggest_compliant_version"
    /\ value.text = <<"cannot", "lose">>
    /\ compliance_issues = <<ISSUE_GUARANTEED, ISSUE_DISCLAIMER>>
    /\ result.fix_value = <<"may", "have", "lower", "risk", DISCLAIMER>>
    /\ Contains(Lowered(SubSeq(result.fix_value, 1, 4)), "risk")

\* C19 as claimed: the fix of a result that holds the guaranteed-return issue
\* holds none of the wordings guarantee / guarantees / guaranteed,
\* risk-free, cannot lose, will definitely.
C19_FixHoldsNoGuaranteeWording ==
    (pc = "validated" /\ result.type = "Fail" /\ ISSUE_GUARANTEED \in Range(result.issues))
        => LET fix == Lowered(result.fix_value)
           IN  /\ ~ HasPhrase(fix, <<GuaranteeWords>>)
               /\ ~ Contains(fix, "risk-free")
               /\ ~ HasPhrase(fix, <<{"cannot"}, {"lose"}>>)
               /\ ~ HasPhrase(fix, <<{"will"}, {"definitely"}>>)

\* C20: with no classifier injected and use_llm_verification off, when the
\* result of a text holds the disclaimer issue, the result of its fix holds
\* no disclaimer issue: a disclaimer keyword occurs in the fix, whatever else
\* was rewritten in it.
C20_FixEndsDisclaimerIssue ==
    (pc = "revalidated" /\ ISSUE_DISCLAIMER \in Range(result.issues))
        => /\ ISSUE_DISCLAIMER \notin Range(revalidated.issues)
           /\ \E keyword \in disclaimer_keywords :
                  Contains(Lowered(result.fix_value), keyword)

\* C20's case: `should buy guaranteed returns` failed on the guaranteed-return
\* issue and the disclaimer issue; its fix, softened and with the paragraph,
\* has passed.
C20_Witness ==
    /\ pc = "revalidated"
    /\ value.text = <<"should", "buy", "guaranteed", "returns">>
    /\ result.issues = <<ISSUE_GUARANTEED, ISSUE_DISCLAIMER>>
    /\ result.fix_value = <<"should", "buy", "potentially", "returns", DISCLAIMER>>
    /\ revalidated = PassResult

\* C21 as claimed: with no classifier injected and use_llm_verification off,
\* when the result of a text holds the specific-prediction issue, the result
\* of its fix holds no specific-prediction issue.
C21_FixEndsPredictionIssue ==
    (pc = "revalidated" /\ ISSUE_PREDICTION \in Range(result.issues))
        => ISSUE_PREDICTION \notin Range(revalidated.issues)

\* The signals of the pattern heuristics on each text of a call: the number of
\* financial keywords in it, the number of advice indicators matching it,
\* whether a price prediction pattern matches, whether one of the financial
\* contexts about an amount or a ticker matches (the first, second and
\* fourth), whether one of the financial contexts of one word matches (the
\* third and fifth)
Signals ==
    [t \in CallTexts |->
        LET l == Lowered(t)
        IN  [keywords |-> Cardinality({kw \in financial_keywords : Contains(l, kw)}),
             advice |-> CountMatches(advice_indicators(l)),
             price |-> AnyMatch(price_prediction_patterns(l)),
             ticker |-> financial_contexts(l)[1] \/ financial_contexts(l)[2]
                            \/ financial_contexts(l)[4],
             term |-> financial_contexts(l)[3] \/ financial_contexts(l)[5]]] @@ <<>>

\* the classifier gave no definite answer in the current call
NoDefiniteAnswer == Classified /\ llm_result \in {"none", "raise"}

CheckerIssues == {ISSUE_GUARANTEED, ISSUE_PREDICTION, ISSUE_DISCLAIMER, ISSUE_UNLICENSED}

\* the issues of the four checkers in a list, in the order of the list
LocalPart(issues) ==
    LET Pick[k \in 0..Len(issues)] ==
            IF k = 0 THEN <<>>
            ELSE IF issues[k] \in CheckerIssues THEN Append(Pick[k - 1], issues[k])
            ELSE Pick[k - 1]
    IN  Pick[Len(issues)]

\* What each checker returns for each text a call is made with
CheckerReturns ==
    [t \in CallTexts \cup {<<>>} |->
        [checker \in CheckerNames |-> CallChecker(checker, t)] @@ <<>>] @@ <<>>

\* C23: each of the four checkers returns at most one issue on the text of
\* the call, however many of its patterns match it; the issue list of the
\* call, while it is collected and in the result, holds each checker's issue
\* at most once, so at most four local issues and no local issue twice.
C23_OneIssuePerCategory ==
    (value.kind = "str") =>
        /\ \A checker \in CheckerNames : Len(CheckerReturns[value.text][checker]) <= 1
        /\ \A issues \in {compliance_issues, result.issues} :
             /\ \A issue \in CheckerIssues : Count(issues, issue) <= 1
             /\ Len(LocalPart(issues)) <= 4

\* C23's case: a call on a text that two or more guaranteed_return patterns
\* match failed with the guaranteed-return issue once in its list.
C23_Witness ==
    /\ pc = "done" /\ value.kind = "str"
    /\ CountMatches(guaranteed_return_patterns(Lowered(value.text))) >= 2
    /\ result.type = "Fail"
    /\ Count(result.issues, ISSUE_GUARANTEED) = 1

\* C24: no step of a validate call changes the configuration of the
\* validator: its seven flags, its spaCy pipeline and its classifier are after
\* each step what they were before it.
C24_CallKeepsConfiguration ==
    [][config' = config /\ spacy_nlp' = spacy_nlp /\ classifier' = classifier]_vars

\* C24's case: a call that went through the classifier, the four checkers,
\* the LLM and the spaCy analysis has failed, on a validator still configured
\* for all of them.
C24_Witness ==
    /\ pc = "done" /\ result.type = "Fail"
    /\ "_llm_compliance_check" \in Range(trace)
    /\ "_get_spacy_risk_entities" \in Range(trace)
    /\ Len(Checkers(config)) = 4
    /\ config.use_llm_verification /\ ~ config.fast_mode /\ spacy_nlp
    /\ classifier = "injected"

\* the issues of the four checkers in a list, in the order _validate calls
\* the checkers
InCheckerOrder(issues) ==
    (IF ISSUE_GUARANTEED \in Range(issues) THEN <<ISSUE_GUARANTEED>> ELSE <<>>)
    \o (IF ISSUE_PREDICTION \in Range(issues) THEN <<ISSUE_PREDICTION>> ELSE <<>>)
    \o (IF ISSUE_DISCLAIMER \in Range(issues) THEN <<ISSUE_DISCLAIMER>> ELSE <<>>)
    \o (IF ISSUE_UNLICENSED \in Range(issues) THEN <<ISSUE_UNLICENSED>> ELSE <<>>)

\* What each checker returns for each text of OrderTexts, and the result
\* _validate makes of what the four return one after the other
SequentialIssues ==
    [t \in OrderTexts |->
        [checker \in CheckerNames |->
            CASE checker = "_check_guaranteed_returns" -> _check_guaranteed_returns(t)
              [] checker = "_check_specific_predictions" -> _check_specific_predictions(t)
              [] checker = "_check_disclaimers" -> _check_disclaimers(t)
              [] checker = "_check_unlicensed_advice" -> _check_unlicensed_advice(t)]
        @@ <<>>] @@ <<>>

SequentialResult ==
    [t \in OrderTexts |->
        Verdict(t, _check_guaranteed_returns(t) \o _check_specific_predictions(t)
                       \o _check_disclaimers(t) \o _check_unlicensed_advice(t))] @@ <<>>

\* what the checkers a call has run return when they are run one after the
\* other in the order of _validate
Sequentially(call) ==
    LET Returns(checker) ==
            IF checker \in Range(trace[call])
            THEN SequentialIssues[value[call].text][checker]
            ELSE <<>>
    IN  Returns("_check_guaranteed_returns") \o Returns("_check_specific_predictions")
        \o Returns("_check_disclaimers") \o Returns("_check_unlicensed_advice")

Places(method) == {k \in DOMAIN trace : trace[k] = method}

\* the places of the four checkers, and of the stages after them
CheckerPlaces == UNION {Places(checker) : checker \in CheckerNames}

SecondaryPlaces ==
    Places("_llm_compliance_check") \cup Places("Groq") \cup Places("_get_spacy_risk_entities")

\* C26: in one call the classifier is consulted at most once and before every
\* checker; the LLM check and the spaCy analysis come only after every enabled
\* checker has returned; _suggest_compliant_version is called at most once,
\* after everything else, and exactly in the calls that end in Fail.
C26_StagesInOrder ==
    /\ Count(trace, "_llm_financial_classifier") <= 1
    /\ \A i \in Places("_llm_financial_classifier") :
          \A j \in CheckerPlaces \cup SecondaryPlaces : i < j
    /\ \A checker \in CheckerNames : Count(trace, checker) <= 1
    /\ \A j \in SecondaryPlaces :
          /\ \A checker \in Range(Checkers(config)) : \E i \in Places(checker) : i < j
          /\ \A i \in CheckerPlaces : i < j
    /\ Count(trace, "_suggest_compliant_version") <= 1
    /\ \A k \in Places("_suggest_compliant_version") :
          /\ k = Len(trace)
          /\ pc = "done" /\ result.type = "Fail"
          /\ result.issues = compliance_issues
    /\ (pc = "done" /\ result.type = "Fail") => Places("_suggest_compliant_version") # {}

\* C26's case: a call with the classifier injected went through the four
\* checkers, the LLM check and the spaCy analysis, in this order, and ended
\* in Fail with the fix computed last.
C26_Witness ==
    /\ pc = "done" /\ classifier = "injected" /\ result.type = "Fail"
    /\ Len(trace) = 9
    /\ trace[1] = "_llm_financial_classifier"
    /\ SubSeq(trace, 2, 5) = Checkers(config)
    /\ trace[6] = "_llm_compliance_check"
    /\ trace[8] = "_get_spacy_risk_entities"
    /\ trace[9] = "_suggest_compliant_version"

\* no issue of the list holds one of the three words
\* _suggest_compliant_version looks for
MentionsNothing(issues) == \A k \in DOMAIN issues : Mentions[issues[k]] = {}

\* C27: when a call fails and none of its issues holds `disclaimer`,
\* `guaranteed` or `specific prediction` (the unlicensed-advice issue, an LLM
\* or spaCy issue worded without them), the fix of the result is the text of
\* the call, token for token, whatever wording the text holds.
C27_FixUnchangedWithoutFixableIssue ==
    (pc = "done" /\ result.type = "Fail" /\ MentionsNothing(result.issues))
        => result.fix_value = value.text

\* C27's case: a text holding a guarantee word and `will hit` failed on the
\* unlicensed-advice issue alone, the other checkers being off, and its fix
\* is the text.
C27_Witness ==
    /\ pc = "done" /\ result.type = "Fail"
    /\ value.text = AllIssuesText
    /\ result.issues = <<ISSUE_UNLICENSED>>
    /\ result.fix_value = AllIssuesText

\* C28 as claimed: for every question that is not blank, whatever the prompt
\* validator returns, validate_user_prompt reports is_valid true and
\* process_question goes on to the generation step.
C28_NonBlankPromptProceeds ==
    (value.text # <<>> /\ "validate_user_prompt" \in Range(trace))
        => /\ app.prompt # <<>>
           /\ app.prompt[1]
           /\ pc = "step2" \/ "generate_financial_advice" \in Range(trace)

\* C29 as claimed: validate_ai_response reports needs_human_review true
\* exactly when the response validator returned Fail with a fix that is
\* absent or is the response itself, and false when validation passed, was
\* skipped, or gave a fix that differs; a response that passes or is skipped
\* is returned as it is.
C29_ReviewExactlyWithoutUsableFix ==
    ("validate_ai_response" \in Range(trace))
        => LET response == app.ai_response
               skipped == response.kind = "error" \/ response.text = <<>>
               validation_result ==
                   ValidateFast(response_validator, response.text, llm_result)
           IN  /\ pc = "returned"
               /\ app.response[3]
                    = (/\ ~ skipped
                       /\ validation_result.type = "Fail"
                       /\ validation_result.fix_value \in {<<>>, response.text})
               /\ (skipped \/ validation_result.type = "Pass")
                    => app.response[1] = response.text

\* C30 as claimed: process_question raises for no question; for the empty
\* question it returns the history it was given; for a question of white
\* space the prompt step reports it invalid and the call returns the
\* please-enter message with no generation and no response validation.
C30_ProcessQuestionNeverRaises ==
    /\ pc # "raised"
    /\ (pc # "idle" /\ value.text = <<>> /\ ~ value.space)
          => /\ pc = "returned" /\ trace = <<>>
             /\ result.values[1] = app.given /\ app.history = app.given
    /\ (pc \notin {"idle", "step1"} /\ value.text = <<>> /\ value.space)
          => /\ pc = "returned" /\ trace = <<"validate_user_prompt">>
             /\ result.values[3] = PleaseEnter

====
